---- MODULE Spec2Model ----
(***************************************************************************)
(* Model of the channel scraper of aivibe_posts2bot (src/utils/parser.py): *)
(* the post-link classifier, the channel normaliser, the page fetcher, the *)
(* pagination loop of fetch_posts, the result assembly, the counter, media *)
(* and URL extractors; of the text splitter (src/utils/text_utils.py); and *)
(* of the bot around them: the startup and polling attempts of main        *)
(* (src/bot.py), the message handlers with the conversation state of a     *)
(* chat, the delivery of a rewritten post (src/handlers/) and the summary  *)
(* of a scan (src/utils/formatter.py).                                     *)
(*                                                                         *)
(* Strings are sequences of one-character strings.  Optional values are    *)
(* None == <<>> or Some(x) == <<x>>.                                       *)
(***************************************************************************)
EXTENDS Integers, Sequences, FiniteSets, TLC

VARIABLES
    op,           \* which operation runs: "none", "fetch_posts", "fetch_single_post", "parse_post_link"
    pc,           \* position of the operation: "idle", "fetching", "done", "failed"
    channel,      \* the channel argument (a string)
    slug,         \* _normalize_channel(channel)
    pagesArg,     \* the pages argument as passed by the caller
    post_id,      \* the post_id argument of fetch_single_post
    pages,        \* the pages local after the clamp (the loop's range)
    next_before,  \* the cursor local of fetch_posts
    all_posts,    \* the accumulator of fetch_posts (records still carry message_id)
    result,       \* the value returned to the caller (None until a return)
    error,        \* the TelegramWebError raised to the caller (None if none)
    page_error,   \* what the last _fetch_page call raised (None if it returned)
    requests,     \* history: the cursor carried by every page request issued, in order
    served,       \* history: the response served to every request, in order
    url,          \* the argument of parse_post_link
    url_shape,    \* history: the pieces the argument was written from
    link_result,  \* the value parse_post_link returned
    slug_again,   \* _normalize_channel applied to its own result
    text,         \* the text argument of split_text / split_text_once
    max_length,   \* the max_length argument
    remainder,    \* the remainder local of split_text; the tail of split_text_once
    split_parts,  \* the parts local of split_text
    head,         \* the head returned by the last split_text_once
    raw,          \* the argument of _parse_counter
    counter,      \* the value _parse_counter returned, in decimal digits
    message_node, \* the message node handed to the media extractors
    media_type,   \* the record _detect_media_type returned
    has_media,    \* the value _detect_media returned
    attempt,      \* the loop variable of main (0 before the loop)
    runner,       \* the healthcheck runner held by main: "none", "running", "cleaned"
    polls,        \* history: how every dp.start_polling call ended, in order
    handled,      \* history: how many updates the dispatcher has taken while polling
    sleeps,       \* history: how many times main slept between attempts
    pending,      \* the exception in flight when main reaches its finally block
    raised,       \* the exception main raised to its caller (None if none)
    message_tree, \* the message element handed to the URL extractors
    photo_url,    \* the value _extract_photo_url returned
    video_url,    \* the value _extract_video_url returned
    post,         \* the post argument of send_rewritten_post: its four media fields
    rewritten,    \* the text rewrite_post returned
    caption_limit, \* MAX_CAPTION_LENGTH
    message_limit, \* MAX_MESSAGE_LENGTH
    branch,       \* the delivery alternative whose try block is running
    chunk,        \* the position in the list send_text_chunks is sending
    tried,        \* history: the delivery alternatives entered, in order
    failed,       \* history: the alternatives that were given up
    sent,         \* history: the messages sent to the chat, in order
    fsm_state,    \* the conversation state of the chat: "none", "waiting_for_selection"
    fsm_data,     \* the data stored for the chat: posts, rewrite_prompt
    update,       \* the message the dispatcher handed to the handlers last
    handler,      \* the handlers that took it, the registered one first
    reply,        \* what the handler answered
    rewrote,      \* the post the handler passed to send_rewritten_post (None if none)
    summary,      \* the summary of a scan shown to the chat last (None if none)
    turns,        \* history: how many messages of the chat were dispatched
    task_pc,      \* per task of the event loop: where its coroutine stands
    task_kind,    \* per task: what arrived for it
    running,      \* the task whose step occupies the loop's thread (None between steps)
    arrivals      \* history: how many updates and requests have arrived

vars == <<op, pc, channel, slug, pagesArg, post_id, pages, next_before, all_posts, result,
          error, page_error, requests, served, url, url_shape, link_result,
          slug_again, text, max_length, remainder, split_parts, head, raw, counter,
          message_node, media_type, has_media,
          attempt, runner, polls, handled, sleeps, pending, raised,
          message_tree, photo_url, video_url,
          post, rewritten, caption_limit, message_limit, branch, chunk, tried, failed, sent,
          fsm_state, fsm_data, update, handler, reply, rewrote, summary, turns,
          task_pc, task_kind, running, arrivals>>

scraperVars == <<channel, slug, pagesArg, post_id, pages, next_before, all_posts, result,
                 error, page_error, requests, served>>

linkVars == <<url, url_shape, link_result>>

textVars == <<text, max_length, remainder, split_parts, head>>

fieldVars == <<raw, counter, message_node, media_type, has_media>>

mainVars == <<attempt, runner, polls, handled, sleeps, pending, raised>>

urlVars == <<message_tree, photo_url, video_url>>

sendVars == <<post, rewritten, caption_limit, message_limit, branch, chunk, tried, failed, sent>>

chatVars == <<fsm_state, fsm_data, update, handler, reply, rewrote, summary, turns>>

loopVars == <<task_pc, task_kind, running, arrivals>>

\* the dispatcher's side of the bot: one chat's conversation and the event loop
botVars == <<chatVars, loopVars>>

\* the state of the bot around the scraper and the pure helpers
appVars == <<mainVars, urlVars, sendVars, botVars>>

\* what the scraper's calls leave alone
pureVars == <<slug_again, textVars, fieldVars>>

None == <<>>
Some(x) == <<x>>

----------------------------------------------------------------------------
(* Bounds of the model *)

\* messages on one served page
MaxMsgs == 2
\* messages the channel serves over one call (Spec)
MaxFeed == 3
\* largest internal message id in a data-post attribute
MaxId == 3
\* largest pages argument tried against the full feed (Spec)
MaxPagesArg == 3
\* characters of the free part of a parse_post_link input
MaxBody == 4
\* characters of a text handed to split_text / split_text_once
MaxText == 5
\* largest max_length handed to split_text / split_text_once
MaxLen == 3
\* .tgme_widget_message_photo_wrap elements in one message
MaxPhotos == 2
\* characters of a counter token handed to _parse_counter
MaxToken == 4

\* updates the dispatcher takes in one run of the bot
MaxUpdates == 2

\* elements inside one message element handed to the URL extractors
MaxElems == 2

\* characters of a rewritten text handed to send_rewritten_post
MaxRewritten == 3

\* the largest batch of posts a scan returns
MaxScan == 21

\* the most messages of a chat that are dispatched
MaxTurns == 3

\* the most updates and requests that arrive at the event loop
MaxArrivals == 4

\* src/utils/parser.py:36
MAX_PAGES == 20

----------------------------------------------------------------------------
(* String helpers: Python's str methods and the two regular expressions *)

\* characters str.strip() removes (those that occur in the inputs)
Whitespace == {" ", "\t", "\n", "\r"}

Digits == {"0", "1", "2", "3", "4", "5", "6", "7", "8", "9"}

\* characters str.isdigit() accepts that int() rejects (e.g. superscript two)
UnicodeDigits == {"²"}

\* decimal digits of other scripts: str.isdigit() accepts them and int()
\* reads them by their value.  The character U+0663 is written by its name.
ForeignDecimals == {"ARABIC-INDIC DIGIT THREE"}

RECURSIVE lstripSet(_, _)
lstripSet(s, chars) ==
    IF s # <<>> /\ Head(s) \in chars THEN lstripSet(Tail(s), chars) ELSE s

RECURSIVE rstripSet(_, _)
rstripSet(s, chars) ==
    IF s # <<>> /\ s[Len(s)] \in chars
    THEN rstripSet(SubSeq(s, 1, Len(s) - 1), chars)
    ELSE s

\* str.strip()
strip(s) == rstripSet(lstripSet(s, Whitespace), Whitespace)

\* str.lstrip("@")
lstripAt(s) == lstripSet(s, {"@"})

\* one character under re.IGNORECASE
lower(c) ==
    CASE c = "H" -> "h"
      [] c = "T" -> "t"
      [] c = "P" -> "p"
      [] c = "S" -> "s"
      [] c = "M" -> "m"
      [] c = "E" -> "e"
      [] OTHER -> c

\* does s start with the literal lit, ignoring case
StartsWithI(s, lit) ==
    /\ Len(s) >= Len(lit)
    /\ \A i \in 1..Len(lit) : lower(s[i]) = lit[i]

Drop(s, n) == SubSeq(s, n + 1, Len(s))

\* the optional group (s/)? right after a matched host prefix: greedy
DropFeedView(s) == IF StartsWithI(s, <<"s", "/">>) THEN Drop(s, 2) ELSE s

HttpsHost == <<"h", "t", "t", "p", "s", ":", "/", "/", "t", ".", "m", "e", "/">>
HttpHost == <<"h", "t", "t", "p", ":", "/", "/", "t", ".", "m", "e", "/">>
BareHost == <<"t", ".", "m", "e", "/">>

\* re.sub(r"^https?://t\.me/(s/)?", "", s, flags=re.IGNORECASE)
subSchemeHost(s) ==
    IF StartsWithI(s, HttpsHost) THEN DropFeedView(Drop(s, Len(HttpsHost)))
    ELSE IF StartsWithI(s, HttpHost) THEN DropFeedView(Drop(s, Len(HttpHost)))
    ELSE s

\* variant: the host-without-scheme form is not recognised
subBareHostNone(s) == s

\* re.sub(r"^t\.me/(s/)?", "", s, flags=re.IGNORECASE)
subBareHost(s) ==
    IF StartsWithI(s, BareHost) THEN DropFeedView(Drop(s, Len(BareHost))) ELSE s

\* str.split("/"): always at least one part
RECURSIVE split(_)
split(s) ==
    IF \A i \in 1..Len(s) : s[i] # "/"
    THEN <<s>>
    ELSE LET k == CHOOSE i \in 1..Len(s) :
                      s[i] = "/" /\ \A j \in 1..(i - 1) : s[j] # "/"
         IN <<SubSeq(s, 1, k - 1)>> \o split(Drop(s, k))

\* str.isdigit()
isdigit(s) ==
    s # <<>> /\ \A i \in 1..Len(s) : s[i] \in Digits \cup ForeignDecimals \cup UnicodeDigits

DigitValue(c) ==
    CASE c = "0" -> 0 [] c = "1" -> 1 [] c = "2" -> 2 [] c = "3" -> 3
      [] c = "4" -> 4 [] c = "5" -> 5 [] c = "6" -> 6 [] c = "7" -> 7
      [] c = "8" -> 8 [] c = "9" -> 9 [] c = "ARABIC-INDIC DIGIT THREE" -> 3

\* int(s) for a string of decimal digits
RECURSIVE intOf(_)
intOf(s) ==
    IF s = <<>> THEN 0
    ELSE 10 * intOf(SubSeq(s, 1, Len(s) - 1)) + DigitValue(s[Len(s)])

\* does int(s) raise ValueError for a string that passed isdigit()
intRaises(s) == \E i \in 1..Len(s) : s[i] \notin Digits \cup ForeignDecimals

----------------------------------------------------------------------------
(* _normalize_channel and parse_post_link *)

_normalize_channel(ch) ==
    split(lstripAt(subSchemeHost(strip(ch))))[1]

\* variant: the id is not required to be positive
parse_post_link_zero(u) ==
    LET stripped == strip(u)
        cleaned1 == subSchemeHost(stripped)
        cleaned2 == IF cleaned1 = stripped THEN subBareHost(cleaned1) ELSE cleaned1
        parts == split(lstripAt(cleaned2))
    IN  IF Len(parts) # 2 THEN None
        ELSE IF parts[1] = <<>> THEN None
        ELSE IF ~isdigit(parts[2]) THEN None
        ELSE IF intRaises(parts[2]) THEN None
        ELSE Some(<<parts[1], intOf(parts[2])>>)

parse_post_link(u) ==
    LET stripped == strip(u)
        cleaned1 == subSchemeHost(stripped)
        cleaned2 == IF cleaned1 = stripped THEN subBareHost(cleaned1) ELSE cleaned1
        parts == split(lstripAt(cleaned2))
    IN  IF Len(parts) # 2 THEN None
        ELSE IF parts[1] = <<>> THEN None
        ELSE IF ~isdigit(parts[2]) THEN None
        ELSE IF intRaises(parts[2]) THEN None
        ELSE IF intOf(parts[2]) <= 0 THEN None
        ELSE Some(<<parts[1], intOf(parts[2])>>)

----------------------------------------------------------------------------
(* The served HTML: responses, pages and message nodes *)

\* A .tgme_widget_message node, reduced to what the scraper reads for
\* pagination and assembly: its a.tgme_widget_message_date anchor and its
\* data-post attribute "<channel>/<id>".  The other extracted fields (text,
\* counters, media) do not influence paging, ordering or the returned keys.
\*   anchor    : "none" (no anchor), "nohref" (anchor without href), "href"
\*   href      : the href value (may be the empty string)
\*   post_kind : "absent", "bad" (last segment is no integer), "int"
\*   post_chan : "self" if the channel part equals the requested slug
\*   post_val  : the integer of the last segment when post_kind = "int"
Hrefs == {"a", "b"}

Ids == 0..MaxId

LinkedMsgs ==
    {[anchor |-> "href", href |-> h, post_kind |-> k.kind, post_chan |-> "self",
      post_val |-> k.val] :
        h \in Hrefs,
        k \in {[kind |-> "bad", val |-> 0]} \cup {[kind |-> "int", val |-> n] : n \in Ids}}

\* the data-post attribute of a message without permalink is never read
UnlinkedMsgs ==
    {[anchor |-> a.anchor, href |-> a.href, post_kind |-> "absent",
      post_chan |-> "self", post_val |-> 0] :
        a \in {[anchor |-> "none", href |-> ""], [anchor |-> "nohref", href |-> ""],
               [anchor |-> "href", href |-> ""]}}

Msgs == LinkedMsgs \cup UnlinkedMsgs

PagesOf(msgs, maxLen) == UNION {[1..n -> msgs] : n \in 0..maxLen}

StatusCodes == {200, 201, 403, 404, 429, 500}

\* requests.RequestException raised by session.get
TransportFailure ==
    [raised |-> TRUE, status_code |-> 0, marker |-> FALSE, messages |-> <<>>]

\* a response with status 200 and no .tgme_page_error element
OkResponse(msgs) ==
    [raised |-> FALSE, status_code |-> 200, marker |-> FALSE, messages |-> msgs]

SampleMsg ==
    [anchor |-> "href", href |-> "a", post_kind |-> "int", post_chan |-> "self",
     post_val |-> 2]

\* the responses on which _fetch_page raises
ErrorResponses ==
    {TransportFailure}
    \cup {[raised |-> FALSE, status_code |-> s, marker |-> mk, messages |-> <<>>] :
            s \in StatusCodes \ {200}, mk \in BOOLEAN}
    \cup {[raised |-> FALSE, status_code |-> 200, marker |-> TRUE, messages |-> m] :
            m \in {<<>>, <<SampleMsg>>}}

----------------------------------------------------------------------------
(* The field extractors and _fetch_page *)

Reverse(s) == [i \in 1..Len(s) |-> s[Len(s) + 1 - i]]

_extract_post_link(message) ==
    IF message.anchor = "href" THEN Some(message.href) ELSE None

\* Python truthiness of an Optional[str]
TruthyStr(x) == x # None /\ x # Some("")

_extract_message_id(message) ==
    IF message.post_kind = "int" THEN Some(message.post_val) ELSE None

\* Python truthiness of an Optional[int]
TruthyInt(x) == x # None /\ x # Some(0)

Error(kind, code) == [kind |-> kind, code |-> code]

\* variant: a failed or 404 request is taken for an empty page
_fetch_page_error_swallow(resp) ==
    IF resp.raised \/ resp.status_code = 404 THEN None
    ELSE IF resp.status_code \in {403, 429}
         THEN Some(Error("AccessBlocked", resp.status_code))
    ELSE IF resp.status_code # 200
         THEN Some(Error("UnexpectedStatus", resp.status_code))
    ELSE IF resp.marker THEN Some(Error("UpstreamErrorPage", 0))
    ELSE None

\* variant: 429 is not in the blocked statuses
_fetch_page_error_no429(resp) ==
    IF resp.raised THEN Some(Error("TransportError", 0))
    ELSE IF resp.status_code = 404 THEN Some(Error("NotFoundOrPrivate", 0))
    ELSE IF resp.status_code = 403
         THEN Some(Error("AccessBlocked", resp.status_code))
    ELSE IF resp.status_code # 200
         THEN Some(Error("UnexpectedStatus", resp.status_code))
    ELSE IF resp.marker THEN Some(Error("UpstreamErrorPage", 0))
    ELSE None

\* the raise statements of _fetch_page, in order; None if it raises nothing
_fetch_page_error(resp) ==
    IF resp.raised THEN Some(Error("TransportError", 0))
    ELSE IF resp.status_code = 404 THEN Some(Error("NotFoundOrPrivate", 0))
    ELSE IF resp.status_code \in {403, 429}
         THEN Some(Error("AccessBlocked", resp.status_code))
    ELSE IF resp.status_code # 200
         THEN Some(Error("UnexpectedStatus", resp.status_code))
    ELSE IF resp.marker THEN Some(Error("UpstreamErrorPage", 0))
    ELSE None

\* variant: the loop stops at the first message without permalink
RECURSIVE PostsOfBreak(_, _)
PostsOfBreak(s, msgs) ==
    IF msgs = <<>> THEN <<>>
    ELSE LET message == Head(msgs)
             post_link == _extract_post_link(message)
         IN  IF ~TruthyStr(post_link) THEN <<>>
             ELSE <<[channel_slug |-> s,
                     post_link |-> post_link[1],
                     message_id |-> _extract_message_id(message)]>>
                  \o PostsOfBreak(s, Tail(msgs))

\* the loop over reversed(messages): the posts list
RECURSIVE PostsOf(_, _)
PostsOf(s, msgs) ==
    IF msgs = <<>> THEN <<>>
    ELSE LET message == Head(msgs)
             post_link == _extract_post_link(message)
         IN  IF ~TruthyStr(post_link) THEN PostsOf(s, Tail(msgs))
             ELSE <<[channel_slug |-> s,
                     post_link |-> post_link[1],
                     message_id |-> _extract_message_id(message)]>>
                  \o PostsOf(s, Tail(msgs))

_fetch_page_posts(s, resp) == PostsOf(s, Reverse(resp.messages))

\* the msg_ids list: the truthy ids of the emitted posts
MsgIds(posts) ==
    {posts[i].message_id[1] : i \in {j \in 1..Len(posts) : TruthyInt(posts[j].message_id)}}

Min(S) == CHOOSE x \in S : \A y \in S : x <= y

Max(S) == CHOOSE x \in S : \A y \in S : x >= y

_fetch_page_next_before(posts) ==
    IF MsgIds(posts) = {} THEN None
    ELSE IF Min(MsgIds(posts)) > 1 THEN Some(Min(MsgIds(posts)))
    ELSE None

\* the before=... query parameter of the page URL: present only for a truthy cursor
RequestCursor(before) == IF TruthyInt(before) THEN before ELSE None

----------------------------------------------------------------------------
(* fetch_posts: clamp, loop, assembly *)

Max2(a, b) == IF a >= b THEN a ELSE b
Min2(a, b) == IF a <= b THEN a ELSE b

\* variant: no upper limit on the page count
ClampPagesNoCap(p) == Max2(1, p)

\* pages = max(1, min(pages, MAX_PAGES))
ClampPages(p) == Max2(1, Min2(p, MAX_PAGES))

\* variant: the accumulator is replaced by the page
ExtendOverwrite(acc, page_posts) == page_posts

\* all_posts.extend(page_posts)
Extend(acc, page_posts) == acc \o page_posts

\* does the for loop run another iteration after iteration i
LoopContinues(page_posts, nb, i, budget) ==
    /\ page_posts # <<>>
    /\ TruthyInt(nb)
    /\ i < budget

\* key=lambda p: p.get("message_id") or 0
SortKey(p) == IF TruthyInt(p.message_id) THEN p.message_id[1] ELSE 0

\* variant: x goes before the elements of equal key (ties are reversed)
RECURSIVE InsertDescUnstable(_, _)
InsertDescUnstable(sortedSeq, x) ==
    IF sortedSeq = <<>> THEN <<x>>
    ELSE IF SortKey(Head(sortedSeq)) > SortKey(x)
         THEN <<Head(sortedSeq)>> \o InsertDescUnstable(Tail(sortedSeq), x)
         ELSE <<x>> \o sortedSeq

\* one insertion of a stable descending sort: x goes after every element
\* whose key is >= its own
RECURSIVE InsertDesc(_, _)
InsertDesc(sortedSeq, x) ==
    IF sortedSeq = <<>> THEN <<x>>
    ELSE IF SortKey(Head(sortedSeq)) >= SortKey(x)
         THEN <<Head(sortedSeq)>> \o InsertDesc(Tail(sortedSeq), x)
         ELSE <<x>> \o sortedSeq

\* sorted(all_posts, key=..., reverse=True): stable, descending
RECURSIVE SortedDesc(_)
SortedDesc(posts) ==
    IF posts = <<>> THEN <<>>
    ELSE InsertDesc(SortedDesc(SubSeq(posts, 1, Len(posts) - 1)), posts[Len(posts)])

\* variant: the internal field is left in the record
PopMessageIdKeep(p) == p

\* p.pop("message_id", None)
PopMessageId(p) == [k \in DOMAIN p \ {"message_id"} |-> p[k]]

\* variant: an empty accumulator is returned as an empty list
AssembleNoRaise(acc) ==
    [pc |-> "done", error |-> None,
     result |-> Some([i \in 1..Len(acc) |-> PopMessageId(SortedDesc(acc)[i])])]

\* the statements after the loop: raise on an empty accumulator, else sort and strip
Assemble(acc) ==
    IF acc = <<>>
    THEN [pc |-> "failed", error |-> Some(Error("NoPostsExtracted", 0)), result |-> None]
    ELSE [pc |-> "done", error |-> None,
          result |-> Some([i \in 1..Len(acc) |-> PopMessageId(SortedDesc(acc)[i])])]

----------------------------------------------------------------------------
(* fetch_single_post *)

\* the raise statements of fetch_single_post before the message lookup
fetch_single_post_error(resp) ==
    IF resp.raised THEN Some(Error("TransportError", 0))
    ELSE IF resp.status_code = 404 THEN Some(Error("NotFoundOrPrivate", 0))
    ELSE IF resp.status_code \in {403, 429}
         THEN Some(Error("AccessBlocked", resp.status_code))
    ELSE IF resp.status_code # 200
         THEN Some(Error("UnexpectedStatus", resp.status_code))
    ELSE IF resp.marker THEN Some(Error("UpstreamErrorPage", 0))
    ELSE None

\* soup.select_one('.tgme_widget_message[data-post="<slug>/<post_id>"]'):
\* the first message of the document carrying exactly that attribute
SelectPost(msgs, id) ==
    LET hits == {i \in 1..Len(msgs) :
                    /\ msgs[i].post_kind = "int"
                    /\ msgs[i].post_chan = "self"
                    /\ msgs[i].post_val = id}
    IN  IF hits = {} THEN None ELSE Some(msgs[Min(hits)])

\* the whole of fetch_single_post after the slug check
fetch_single_post(s, id, resp) ==
    IF fetch_single_post_error(resp) # None
    THEN [pc |-> "failed", error |-> fetch_single_post_error(resp), result |-> None]
    ELSE IF SelectPost(resp.messages, id) = None
    THEN [pc |-> "failed", error |-> Some(Error("PostNotOnPage", 0)), result |-> None]
    ELSE IF ~TruthyStr(_extract_post_link(SelectPost(resp.messages, id)[1]))
    THEN [pc |-> "failed", error |-> Some(Error("NoPostLink", 0)), result |-> None]
    ELSE [pc |-> "done", error |-> None,
          result |-> Some([channel_slug |-> s,
                           post_link |->
                             _extract_post_link(SelectPost(resp.messages, id)[1])[1]])]

----------------------------------------------------------------------------
(* src/utils/text_utils.py: _find_split_index, split_text_once *)

\* the characters _find_split_index looks for
SplitChars == {"\n", " ", "\t"}

\* str.rfind(c): the last 0-based position of c, -1 if there is none
rfind(s, c) ==
    IF \A i \in 1..Len(s) : s[i] # c THEN -1
    ELSE (CHOOSE i \in 1..Len(s) : s[i] = c /\ \A j \in (i + 1)..Len(s) : s[j] # c) - 1

\* text[:n] for n >= 0
Take(s, n) == SubSeq(s, 1, Min2(n, Len(s)))

Max3(a, b, c) == Max2(a, Max2(b, c))

\* variant: a hard cut keeps the whole window
_find_split_index_over(t, n) ==
    LET window == Take(t, n + 1)
        split_idx == Max3(rfind(window, "\n"), rfind(window, " "), rfind(window, "\t"))
    IN  IF split_idx > 0 THEN split_idx ELSE n + 1

\* variant: the split point is the largest position of a newline only
_find_split_index_newline(t, n) ==
    LET window == Take(t, n + 1)
        split_idx == rfind(window, "\n")
    IN  IF split_idx > 0 THEN split_idx ELSE n

_find_split_index(t, n) ==
    LET window == Take(t, n + 1)
        split_idx == Max3(rfind(window, "\n"), rfind(window, " "), rfind(window, "\t"))
    IN  IF split_idx > 0 THEN split_idx ELSE n

\* variant: the head stops one character before the split point
split_text_once_short(t, n) ==
    IF t = <<>> \/ strip(t) = <<>> THEN [head |-> <<>>, tail |-> <<>>]
    ELSE IF Len(strip(t)) <= n THEN [head |-> strip(t), tail |-> <<>>]
    ELSE LET split_idx == _find_split_index(strip(t), n)
         IN  [head |-> rstripSet(Take(strip(t), split_idx - 1), Whitespace),
              tail |-> lstripSet(Drop(strip(t), split_idx), Whitespace)]

\* variant: a text that fits is split at its last whitespace all the same
split_text_once_always(t, n) ==
    IF t = <<>> \/ strip(t) = <<>> THEN [head |-> <<>>, tail |-> <<>>]
    ELSE LET split_idx == _find_split_index(strip(t), n)
         IN  [head |-> rstripSet(Take(strip(t), split_idx), Whitespace),
              tail |-> lstripSet(Drop(strip(t), split_idx), Whitespace)]

\* variant: the tail starts one character after the split point
split_text_once_drop(t, n) ==
    IF t = <<>> \/ strip(t) = <<>> THEN [head |-> <<>>, tail |-> <<>>]
    ELSE IF Len(strip(t)) <= n THEN [head |-> strip(t), tail |-> <<>>]
    ELSE LET split_idx == _find_split_index(strip(t), n)
         IN  [head |-> rstripSet(Take(strip(t), split_idx), Whitespace),
              tail |-> lstripSet(Drop(strip(t), split_idx + 1), Whitespace)]

\* the pair (head, tail) returned by split_text_once
split_text_once(t, n) ==
    IF t = <<>> \/ strip(t) = <<>> THEN [head |-> <<>>, tail |-> <<>>]
    ELSE IF Len(strip(t)) <= n THEN [head |-> strip(t), tail |-> <<>>]
    ELSE LET split_idx == _find_split_index(strip(t), n)
         IN  [head |-> rstripSet(Take(strip(t), split_idx), Whitespace),
              tail |-> lstripSet(Drop(strip(t), split_idx), Whitespace)]

\* the loop of split_text: the parts appended from a remainder on
RECURSIVE SplitFrom(_, _)
SplitFrom(rest, n) ==
    IF rest = <<>> THEN <<>>
    ELSE IF split_text_once(rest, n).head = <<>> THEN <<>>
    ELSE <<split_text_once(rest, n).head>> \o SplitFrom(split_text_once(rest, n).tail, n)

\* the list returned by split_text
split_text(t, n) ==
    IF t = <<>> \/ strip(t) = <<>> THEN <<>> ELSE SplitFrom(strip(t), n)

----------------------------------------------------------------------------
(* Python's float: IEEE 754 binary64 with round-half-to-even *)

\* A natural number too large for an integer of the model is a sequence of
\* bits, most significant first and without leading zeros; a float is such a
\* significand m with an exponent e, of value m * 2^e.

MantissaBits == 53

\* bits appended to a numerator before a division, so that the quotient of a
\* number part by a power of ten has more than MantissaBits bits
GuardBits == 80

Front(s) == SubSeq(s, 1, Len(s) - 1)

Last(s) == s[Len(s)]

Zeros(k) == [i \in 1..k |-> 0]

RECURSIVE BitsOf(_)
BitsOf(n) == IF n = 0 THEN <<>> ELSE Append(BitsOf(n \div 2), n % 2)

StripZeros(bits) ==
    IF \A i \in 1..Len(bits) : bits[i] = 0 THEN <<>>
    ELSE SubSeq(bits, Min({i \in 1..Len(bits) : bits[i] = 1}), Len(bits))

\* long division of a bit sequence by a small divisor d, entered with the
\* remainder r0 < d: quotient bits and remainder.  The sequence is halved
\* instead of being walked bit by bit, and the upper half is finished (its
\* remainder is below d) before the lower half is entered.
RECURSIVE DivFrom(_, _, _)
DivFrom(bits, d, r0) ==
    IF bits = <<>> THEN [q |-> <<>>, r |-> r0]
    ELSE IF Len(bits) = 1
    THEN IF 2 * r0 + bits[1] >= d
         THEN [q |-> <<1>>, r |-> 2 * r0 + bits[1] - d]
         ELSE [q |-> <<0>>, r |-> 2 * r0 + bits[1]]
    ELSE LET half == Len(bits) \div 2
             hi == DivFrom(SubSeq(bits, 1, half), d, r0)
             lo == DivFrom(SubSeq(bits, half + 1, Len(bits)), d, hi.r)
         IN  IF hi.r < d THEN [q |-> hi.q \o lo.q, r |-> lo.r]
             ELSE [q |-> <<>>, r |-> d]

DivBits(bits, d) == DivFrom(bits, d, 0)

\* a bit sequence times a small factor k plus a carry < k: the low
\* Len(bits) bits of the product and the carry out (again below k); the
\* lower half is finished before the upper half is entered
RECURSIVE MulFrom(_, _, _)
MulFrom(bits, k, carry) ==
    IF bits = <<>> THEN [bits |-> <<>>, carry |-> carry]
    ELSE IF Len(bits) = 1
    THEN [bits |-> <<(bits[1] * k + carry) % 2>>, carry |-> (bits[1] * k + carry) \div 2]
    ELSE LET half == Len(bits) \div 2
             lo == MulFrom(SubSeq(bits, half + 1, Len(bits)), k, carry)
             hi == MulFrom(SubSeq(bits, 1, half), k, lo.carry)
         IN  IF lo.carry < k THEN [bits |-> hi.bits \o lo.bits, carry |-> hi.carry]
             ELSE [bits |-> <<>>, carry |-> k]

MulBits(bits, k, carry) ==
    BitsOf(MulFrom(bits, k, carry).carry) \o MulFrom(bits, k, carry).bits

\* a bit sequence plus one
IncBits(bits) ==
    IF \A i \in 1..Len(bits) : bits[i] = 1 THEN <<1>> \o Zeros(Len(bits))
    ELSE LET z == Max({i \in 1..Len(bits) : bits[i] = 0})
         IN  [i \in 1..Len(bits) |-> IF i < z THEN bits[i] ELSE IF i = z THEN 1 ELSE 0]

\* the exact value bits (plus something below the last bit if sticky)
\* rounded to MantissaBits significant bits, ties to even: the significand
\* and the number of bits dropped
RoundBits(bits, sticky) ==
    IF Len(bits) <= MantissaBits THEN [m |-> bits, shift |-> 0]
    ELSE LET top == SubSeq(bits, 1, MantissaBits)
             guard == bits[MantissaBits + 1]
             rest == sticky \/ \E i \in (MantissaBits + 2)..Len(bits) : bits[i] = 1
             up == guard = 1 /\ (rest \/ Last(top) = 1)
         IN  [m |-> IF up THEN IncBits(top) ELSE top, shift |-> Len(bits) - MantissaBits]

RECURSIVE Pow10(_)
Pow10(k) == IF k = 0 THEN 1 ELSE 10 * Pow10(k - 1)

\* float(s) for s = digits or digits "." digits: the double nearest to the
\* decimal
float(s) ==
    LET point == {i \in 1..Len(s) : s[i] = "."}
        whole == IF point = {} THEN s ELSE SubSeq(s, 1, Min(point) - 1)
        frac == IF point = {} THEN <<>> ELSE Drop(s, Min(point))
        d == DivBits(BitsOf(intOf(whole \o frac)) \o Zeros(GuardBits), Pow10(Len(frac)))
        r == RoundBits(StripZeros(d.q), d.r # 0)
    IN  IF intOf(whole \o frac) = 0 THEN [m |-> <<>>, e |-> 0]
        ELSE [m |-> r.m, e |-> r.shift - GuardBits]

\* number *= k for a float number and an int k
fmul(x, k) ==
    LET r == RoundBits(MulBits(x.m, k, 0), FALSE)
    IN  IF x.m = <<>> THEN x ELSE [m |-> r.m, e |-> x.e + r.shift]

\* int(number): truncation, as a bit sequence
int(x) ==
    IF x.e >= 0 THEN x.m \o Zeros(x.e)
    ELSE IF -x.e >= Len(x.m) THEN <<>>
    ELSE SubSeq(x.m, 1, Len(x.m) + x.e)

DigitChar(n) ==
    CASE n = 0 -> "0" [] n = 1 -> "1" [] n = 2 -> "2" [] n = 3 -> "3"
      [] n = 4 -> "4" [] n = 5 -> "5" [] n = 6 -> "6" [] n = 7 -> "7"
      [] n = 8 -> "8" [] n = 9 -> "9"

\* the decimal digits of a bit sequence
RECURSIVE DecimalOf(_)
DecimalOf(bits) ==
    IF bits = <<>> THEN <<>>
    ELSE Append(DecimalOf(StripZeros(DivBits(bits, 10).q)), DigitChar(DivBits(bits, 10).r))

\* an int as the model carries it when it may exceed the model's integers:
\* its decimal digits, "0" for zero
Numeral(digits) == IF digits = <<>> THEN <<"0">> ELSE digits

----------------------------------------------------------------------------
(* _parse_counter *)

\* str.replace(a, "")
RECURSIVE remove(_, _)
remove(s, a) ==
    IF s = <<>> THEN <<>>
    ELSE IF Head(s) = a THEN remove(Tail(s), a)
    ELSE <<Head(s)>> \o remove(Tail(s), a)

\* one character under str.upper() (the characters that occur in the inputs)
upperChar(c) ==
    CASE c = "k" -> "K"
      [] c = "m" -> "M"
      [] c = "a" -> "A"
      [] OTHER -> c

upper(s) == [i \in 1..Len(s) |-> upperChar(s[i])]

\* the length of the longest prefix of s made of ASCII digits
RECURSIVE DigitRun(_)
DigitRun(s) == IF s # <<>> /\ Head(s) \in Digits THEN 1 + DigitRun(Tail(s)) ELSE 0

\* re.match(r"([0-9]+(?:[\.,][0-9]+)?)([KM]?)", t): None, or the two groups
match(t) ==
    LET whole == DigitRun(t)
        afterWhole == Drop(t, whole)
        frac == IF afterWhole # <<>> /\ Head(afterWhole) \in {".", ","}
                THEN DigitRun(Tail(afterWhole)) ELSE 0
        numberLen == IF frac > 0 THEN whole + 1 + frac ELSE whole
        afterNumber == Drop(t, numberLen)
    IN  IF whole = 0 THEN None
        ELSE Some([number_part |-> SubSeq(t, 1, numberLen),
                   suffix |-> IF afterNumber # <<>> /\ Head(afterNumber) \in {"K", "M"}
                              THEN <<Head(afterNumber)>> ELSE <<>>])

\* re.sub(r"\D", "", t): the decimal digits of t, of any script
RECURSIVE subNonDigits(_)
subNonDigits(t) ==
    IF t = <<>> THEN <<>>
    ELSE IF Head(t) \in Digits \cup ForeignDecimals
         THEN <<Head(t)>> \o subNonDigits(Tail(t))
    ELSE subNonDigits(Tail(t))

\* int(digits) for a string of decimal digits, as a numeral
intNumeral(digits) ==
    Numeral(lstripSet([i \in 1..Len(digits) |-> DigitChar(DigitValue(digits[i]))], {"0"}))

\* number_part.replace(",", ".")
commaToPoint(s) == [i \in 1..Len(s) |-> IF s[i] = "," THEN "." ELSE s[i]]

_parse_counter(r) ==
    LET t == upper(remove(r, " "))
        m == match(t)
    IN  IF m = None
        THEN LET digits == subNonDigits(t)
             IN  IF isdigit(digits) THEN intNumeral(digits) ELSE <<"0">>
        ELSE LET number == float(commaToPoint(m[1].number_part))
                 scaled == IF m[1].suffix = <<"K">> THEN fmul(number, 1000)
                           ELSE IF m[1].suffix = <<"M">> THEN fmul(number, 1000000)
                           ELSE number
             IN  Numeral(DecimalOf(int(scaled)))

----------------------------------------------------------------------------
(* _detect_media_type and _detect_media *)

\* A message node as the media extractors read it: which of the elements
\* .tgme_widget_message_text, _poll, _voice, _document, _video and _photo it
\* holds, and how many .tgme_widget_message_photo_wrap elements.
MediaType(type, has_text, media_count) ==
    [type |-> type, has_text |-> has_text, media_count |-> media_count]

_detect_media_type(m) ==
    LET has_text == m.text_block
    IN  IF m.poll THEN MediaType("poll", has_text, 1)
        ELSE IF m.voice THEN MediaType("voice", has_text, 1)
        ELSE IF m.document THEN MediaType("document", has_text, 1)
        ELSE IF m.video THEN MediaType("video", has_text, 1)
        ELSE IF m.photo_wraps > 1 THEN MediaType("gallery", has_text, m.photo_wraps)
        ELSE IF m.photo THEN MediaType("photo", has_text, 1)
        ELSE MediaType("text", has_text, 0)

_detect_media(m) == _detect_media_type(m).type # "text"

----------------------------------------------------------------------------
(* _extract_photo_url and _extract_video_url *)

\* A message is the sequence of its descendant elements in document order.
\* An element is a record: name (the tag), classes (a set), parent (the
\* position of its parent element, 0 for the message itself), style (None, or
\* Some of what the style attribute holds: whether the text "background-image"
\* occurs in it, and the group the url(...) pattern captures, None without a
\* match), src and data_src (None for a missing attribute).

\* the positions of the ancestors of element i of message m
RECURSIVE Ancestors(_, _)
Ancestors(m, i) ==
    IF m[i].parent = 0 THEN {} ELSE {m[i].parent} \cup Ancestors(m, m[i].parent)

\* el.find_all / el.select: the positions of the descendants of element i
\* (of the whole message for i = 0) that satisfy Test, in document order
Descendants(m, i, Test(_)) ==
    SelectSeq([j \in 1..Len(m) |-> j],
              LAMBDA j : (i = 0 \/ i \in Ancestors(m, j)) /\ Test(m[j]))

\* the first present value of a sequence of optional values
RECURSIVE FirstSome(_)
FirstSome(options) ==
    IF options = <<>> THEN None
    ELSE IF options[1] # None THEN options[1]
    ELSE FirstSome(Tail(options))

\* if url.startswith("//"): url = "https:" + url
WithScheme(u) ==
    IF Len(u) >= 2 /\ u[1] = "/" /\ u[2] = "/"
    THEN <<"h", "t", "t", "p", "s", ":">> \o u
    ELSE u

\* re.search(r"url\(...\)", style) on an element's style: the captured group
StyleUrl(el) == IF el.style = None THEN None ELSE el.style[1].url

\* "background-image" in style
HasBackgroundImage(el) == el.style # None /\ el.style[1].background_image

PhotoSelectors ==
    <<"tgme_widget_message_photo_wrap", "tgme_widget_message_photo",
      "tgme_widget_message_video_thumb", "tgme_widget_message_video_player">>

VideoSelectors ==
    <<"tgme_widget_message_video", "tgme_widget_message_video_player",
      "tgme_widget_message_video_wrap">>

AvatarClass == "tgme_widget_message_user_photo"

\* what one element selected by a photo selector yields: the url of its
\* style, else its src when it is an img
PhotoOfSelected(el) ==
    IF StyleUrl(el) # None THEN Some(WithScheme(StyleUrl(el)[1]))
    ELSE IF el.name = "img" /\ el.src # None THEN Some(WithScheme(el.src[1]))
    ELSE None

\* the positions of the elements matching the selectors, selector by
\* selector, each in document order
RECURSIVE Selected(_, _)
Selected(m, selectors) ==
    IF selectors = <<>> THEN <<>>
    ELSE Descendants(m, 0, LAMBDA el : selectors[1] \in el.classes)
           \o Selected(m, Tail(selectors))

_extract_photo_url(m) ==
    LET selected == Selected(m, PhotoSelectors)
        containers == [k \in 1..Len(selected) |-> PhotoOfSelected(m[selected[k]])]
        styled == Descendants(m, 0, LAMBDA el : el.style # None)
        backgrounds ==
            [k \in 1..Len(styled) |->
                IF HasBackgroundImage(m[styled[k]]) /\ StyleUrl(m[styled[k]]) # None
                THEN Some(WithScheme(StyleUrl(m[styled[k]])[1])) ELSE None]
        imgs == Descendants(m, 0, LAMBDA el : el.name = "img")
        sources ==
            [k \in 1..Len(imgs) |->
                IF AvatarClass \notin m[imgs[k]].classes /\ m[imgs[k]].src # None
                   /\ m[imgs[k]].src[1] # <<>>
                THEN Some(WithScheme(m[imgs[k]].src[1])) ELSE None]
    IN  FirstSome(containers \o backgrounds \o sources)

\* what a <video> element yields: its src, else the src of its first <source>
VideoSrc(m, j) ==
    IF m[j].src # None THEN Some(WithScheme(m[j].src[1]))
    ELSE LET inner == Descendants(m, j, LAMBDA el : el.name = "source")
         IN  IF inner # <<>> /\ m[inner[1]].src # None
             THEN Some(WithScheme(m[inner[1]].src[1])) ELSE None

\* what one element selected by a video selector yields: the url of its
\* background image, else what its first inner <video> yields
VideoOfSelected(m, j) ==
    IF HasBackgroundImage(m[j]) /\ StyleUrl(m[j]) # None
    THEN Some(WithScheme(StyleUrl(m[j])[1]))
    ELSE LET inner == Descendants(m, j, LAMBDA el : el.name = "video")
         IN  IF inner # <<>> THEN VideoSrc(m, inner[1]) ELSE None

_extract_video_url(m) ==
    LET selected == Selected(m, VideoSelectors)
        containers == [k \in 1..Len(selected) |-> VideoOfSelected(m, selected[k])]
        videos == Descendants(m, 0, LAMBDA el : el.name = "video")
        sources == [k \in 1..Len(videos) |-> VideoSrc(m, videos[k])]
        lazy == Descendants(m, 0, LAMBDA el : el.data_src # None)
        lazies ==
            [k \in 1..Len(lazy) |->
                IF m[lazy[k]].data_src[1] # <<>>
                THEN Some(WithScheme(m[lazy[k]].data_src[1])) ELSE None]
    IN  FirstSome(containers \o sources \o lazies)

----------------------------------------------------------------------------
(* Inputs *)

\* channel arguments: "@" (no usable slug) and "https://t.me/s/ch/5"
Channels ==
    {<<"@">>,
     HttpsHost \o <<"s", "/", "c", "h", "/", "5">>}

\* pages arguments tried against the full feed
PagesArgs == 0..MaxPagesArg

\* pages arguments tried against the thin feed: around 1 and around MAX_PAGES
DeepPagesArgs == {-1, 0, 1, 2, MAX_PAGES - 1, MAX_PAGES, MAX_PAGES + 1, MAX_PAGES + 5}

\* messages of pages served to fetch_single_post: data-post may name another channel
SinglePostMsgs ==
    {[anchor |-> a, href |-> "a", post_kind |-> "int", post_chan |-> c, post_val |-> n] :
        a \in {"none", "href"}, c \in {"self", "other"}, n \in 1..MaxId}

\* the pages of the thin feed: one message per page
ThinPages ==
    {<<>>,
     <<SampleMsg>>,
     <<[SampleMsg EXCEPT !.post_val = 1]>>,
     <<[SampleMsg EXCEPT !.anchor = "nohref"]>>}

\* messages served so far in this call
RECURSIVE FeedUsed(_)
FeedUsed(resps) ==
    IF resps = <<>> THEN 0 ELSE Len(Head(resps).messages) + FeedUsed(Tail(resps))

\* characters of the free part of a link: a letter, the feed-view letter in
\* both cases, the mention sign, the separator and two digits
BodyChars == {"a", "s", "S", "@", "/", "0", "1"}

Bodies == UNION {[1..n -> BodyChars] : n \in 0..MaxBody}

\* what may precede the free part: nothing, "@", and the host forms
UpperHost == <<"H", "T", "T", "P", "S", ":", "/", "/", "T", ".", "M", "E", "/">>

Prefixes ==
    {<<>>, <<"@">>, BareHost, HttpsHost, HttpHost,
     HttpsHost \o <<"s", "/">>, HttpHost \o <<"s", "/">>,
     BareHost \o <<"s", "/">>, UpperHost}

\* characters of the free part of a link whose id segment is under test: a
\* letter, the separator, two digits, a sign, a decimal point, a character
\* that is a digit but no decimal, and a decimal digit of another script
IdChars == {"a", "/", "0", "1", "-", ".", "²", "ARABIC-INDIC DIGIT THREE"}

IdBodies == UNION {[1..n -> IdChars] : n \in 0..MaxBody}

IdPrefixes == {<<>>, <<"@">>, HttpsHost}

\* characters of a counter token: two digits, the decimal separators, the
\* suffixes in either case, a space and a letter
CounterChars == {"1", "4", ".", ",", "K", "m", " ", "a"}

Tokens == UNION {[1..n -> CounterChars] : n \in 0..MaxToken}

MessageNodes ==
    [text_block : BOOLEAN, poll : BOOLEAN, voice : BOOLEAN, document : BOOLEAN,
     video : BOOLEAN, photo_wraps : 0..MaxPhotos, photo : BOOLEAN]

\* characters of a text to split: two letters, a space, a newline, and a
\* carriage return (whitespace to str.strip(), no split point)
TextChars == {"a", "b", " ", "\n", "\r"}

Texts == UNION {[1..n -> TextChars] : n \in 0..MaxText}

MaxLengths == 0..MaxLen

\* characters of the free part of a channel reference: a letter, the
\* feed-view letter, the mention sign, the separator, a space and a digit
NormChars == {"a", "s", "@", "/", " ", "1"}

NormBodies == UNION {[1..n -> NormChars] : n \in 0..MaxBody}

\* surrounding whitespace: none, or two spaces before and a newline after
Pads == {[lead |-> <<>>, trail |-> <<>>], [lead |-> <<" ", " ">>, trail |-> <<"\n">>]}

\* a message node before any is handed to the media extractors
NoMessage ==
    [text_block |-> FALSE, poll |-> FALSE, voice |-> FALSE, document |-> FALSE,
     video |-> FALSE, photo_wraps |-> 0, photo |-> FALSE]

NoShape == [lead |-> <<>>, prefix |-> <<>>, body |-> <<>>, trail |-> <<>>]

UrlOf(shape) == shape.lead \o shape.prefix \o shape.body \o shape.trail

\* an element outside any other, with no attribute but its classes
Element(name, classes) ==
    [name |-> name, classes |-> classes, parent |-> 0, style |-> None, src |-> None,
     data_src |-> None]

Background(u) == Some([background_image |-> TRUE, url |-> Some(u)])

\* the elements a message is written from: the containers of the feed's
\* markup, a bare <video> and its <source>, the author's avatar, an inline
\* emoji, an image and a lazily loaded element of no known class
ElementShapes ==
    {[Element("a", {"tgme_widget_message_photo_wrap"}) EXCEPT
         !.style = Background(<<"/", "/", "p">>)],
     [Element("div", {"tgme_widget_message_photo_wrap"}) EXCEPT
         !.style = Some([background_image |-> FALSE, url |-> Some(<<"h", ":", "x">>)])],
     [Element("img", {"tgme_widget_message_photo"}) EXCEPT !.src = Some(<<"/", "/", "q">>)],
     [Element("i", {"tgme_widget_message_video_thumb"}) EXCEPT
         !.style = Background(<<"h", ":", "t">>)],
     Element("a", {"tgme_widget_message_video_player"}),
     [Element("div", {"tgme_widget_message_video_wrap"}) EXCEPT
         !.style = Some([background_image |-> FALSE, url |-> None])],
     [Element("video", {"tgme_widget_message_video"}) EXCEPT !.src = Some(<<"/", "/", "v">>)],
     Element("video", {}),
     [Element("source", {}) EXCEPT !.src = Some(<<"h", ":", "s">>)],
     [Element("img", {AvatarClass}) EXCEPT !.src = Some(<<"/", "/", "u">>)],
     [Element("i", {"emoji"}) EXCEPT !.style = Background(<<"/", "/", "e">>)],
     [Element("img", {}) EXCEPT !.src = Some(<<"h", ":", "i">>)],
     [Element("div", {}) EXCEPT !.data_src = Some(<<"/", "/", "d">>)]}

\* document order: an element's parent is the message, the element before
\* it, or one of that element's ancestors
InDocumentOrder(m) ==
    \A j \in 1..Len(m) :
        \/ m[j].parent = 0
        \/ j > 1 /\ m[j].parent \in {j - 1} \cup Ancestors(m, j - 1)

\* the messages of at most MaxElems elements
MessageTrees ==
    UNION {{m \in [1..n -> {[el EXCEPT !.parent = q] : el \in ElementShapes, q \in 0..(n - 1)}] :
               (\A j \in 1..n : m[j].parent < j) /\ InDocumentOrder(m)} : n \in 0..MaxElems}

----------------------------------------------------------------------------
(* State machine *)

\* the pure helpers have not been called
PureIdle ==
    /\ slug_again = <<>>
    /\ text = <<>>
    /\ max_length = 0
    /\ remainder = <<>>
    /\ split_parts = <<>>
    /\ head = <<>>
    /\ raw = <<>>
    /\ counter = None
    /\ message_node = NoMessage
    /\ media_type = None
    /\ has_media = FALSE

\* main has not been started
MainIdle ==
    /\ attempt = 0
    /\ runner = "none"
    /\ polls = <<>>
    /\ handled = 0
    /\ sleeps = 0
    /\ pending = None
    /\ raised = None

\* the URL extractors have not been called
UrlIdle ==
    /\ message_tree = <<>>
    /\ photo_url = None
    /\ video_url = None

\* a post without media
NoPost ==
    [video_file_id |-> None, video_url |-> None, photo_file_id |-> None, photo_url |-> None]

\* send_rewritten_post has not been called
SendIdle ==
    /\ post = NoPost
    /\ rewritten = <<>>
    /\ caption_limit = 0
    /\ message_limit = 0
    /\ branch = "none"
    /\ chunk = 0
    /\ tried = <<>>
    /\ failed = {}
    /\ sent = <<>>

\* the data of a chat that has stored nothing (state.clear() leaves this)
NoData == [posts |-> None, rewrite_prompt |-> None]

\* a message without text, caption or forward origin
NoUpdate == [forward_from_chat |-> FALSE, text |-> None, caption |-> None]

\* no message has been dispatched
ChatIdle ==
    /\ fsm_state = "none"
    /\ fsm_data = NoData
    /\ update = NoUpdate
    /\ handler = <<>>
    /\ reply = "none"
    /\ rewrote = None
    /\ summary = None
    /\ turns = 0

\* the tasks of the event loop: the handler tasks of two chats and the
\* request handler of the health endpoint
Tasks == {"chat1", "chat2", "health"}

\* nothing has arrived at the event loop
LoopIdle ==
    /\ task_pc = [t \in Tasks |-> "idle"]
    /\ task_kind = [t \in Tasks |-> "none"]
    /\ running = None
    /\ arrivals = 0

\* the bot around the scraper is at rest
AppIdle == MainIdle /\ UrlIdle /\ SendIdle /\ ChatIdle /\ LoopIdle

\* no call has been made
ScraperIdle ==
    /\ channel = <<>>
    /\ slug = <<>>
    /\ pagesArg = 0
    /\ post_id = 0
    /\ pages = 0
    /\ next_before = None
    /\ all_posts = <<>>
    /\ result = None
    /\ error = None
    /\ page_error = None
    /\ requests = <<>>
    /\ served = <<>>

Idle ==
    /\ op = "none"
    /\ pc = "idle"
    /\ channel = <<>>
    /\ slug = <<>>
    /\ pagesArg = 0
    /\ post_id = 0
    /\ pages = 0
    /\ next_before = None
    /\ all_posts = <<>>
    /\ result = None
    /\ error = None
    /\ page_error = None
    /\ requests = <<>>
    /\ served = <<>>
    /\ url = <<>>
    /\ url_shape = NoShape
    /\ link_result = None
    /\ PureIdle
    /\ AppIdle

Init == Idle

\* fetch_posts(channel, pages) up to the loop: normalise, reject an empty slug, clamp
CallFetchPostsWith(ch, p) ==
    /\ pc = "idle"
    /\ op' = "fetch_posts"
    /\ channel' = ch
    /\ slug' = _normalize_channel(ch)
    /\ pagesArg' = p
    /\ IF _normalize_channel(ch) = <<>>
       THEN /\ pc' = "failed"
            /\ error' = Some(Error("InvalidChannel", 0))
            /\ pages' = pages
       ELSE /\ pc' = "fetching"
            /\ error' = error
            /\ pages' = ClampPages(p)
    /\ UNCHANGED <<post_id, next_before, all_posts, result, page_error, requests, served>>
    /\ UNCHANGED linkVars
    /\ UNCHANGED appVars
    /\ UNCHANGED pureVars

\* one iteration of the loop of fetch_posts: the request, _fetch_page on the
\* response, the accumulation, and - when the loop ends here - the assembly
FetchPageWith(resp) ==
    /\ op = "fetch_posts"
    /\ pc = "fetching"
    /\ requests' = Append(requests, RequestCursor(next_before))
    /\ served' = Append(served, resp)
    /\ page_error' = _fetch_page_error(resp)
    /\ IF _fetch_page_error(resp) # None
       THEN /\ pc' = "failed"
            /\ error' = _fetch_page_error(resp)
            /\ UNCHANGED <<next_before, all_posts, result>>
       ELSE LET page_posts == _fetch_page_posts(slug, resp)
                nb == IF resp.messages = <<>> THEN None
                      ELSE _fetch_page_next_before(page_posts)
                acc == IF page_posts = <<>> THEN all_posts
                       ELSE Extend(all_posts, page_posts)
            IN  /\ next_before' = nb
                /\ all_posts' = acc
                /\ IF LoopContinues(page_posts, nb, Len(requests) + 1, pages)
                   THEN /\ pc' = "fetching"
                        /\ UNCHANGED <<result, error>>
                   ELSE /\ pc' = Assemble(acc).pc
                        /\ error' = Assemble(acc).error
                        /\ result' = Assemble(acc).result
    /\ UNCHANGED <<op, channel, slug, pagesArg, post_id, pages>>
    /\ UNCHANGED linkVars
    /\ UNCHANGED appVars
    /\ UNCHANGED pureVars

\* fetch_single_post(channel, post_id): one request, one lookup
CallFetchSinglePostWith(ch, id, resp) ==
    /\ pc = "idle"
    /\ op' = "fetch_single_post"
    /\ channel' = ch
    /\ post_id' = id
    /\ slug' = _normalize_channel(ch)
    /\ IF _normalize_channel(ch) = <<>>
       THEN /\ pc' = "failed"
            /\ error' = Some(Error("InvalidChannel", 0))
            /\ UNCHANGED <<result, served>>
       ELSE /\ served' = Append(served, resp)
            /\ pc' = fetch_single_post(_normalize_channel(ch), id, resp).pc
            /\ error' = fetch_single_post(_normalize_channel(ch), id, resp).error
            /\ result' = fetch_single_post(_normalize_channel(ch), id, resp).result
    /\ UNCHANGED <<pagesArg, pages, next_before, all_posts, page_error, requests>>
    /\ UNCHANGED linkVars
    /\ UNCHANGED appVars
    /\ UNCHANGED pureVars

CallFetchPosts ==
    /\ pc = "idle"
    /\ \E ch \in Channels, p \in PagesArgs : CallFetchPostsWith(ch, p)

\* the failures served against the full feed: a transport failure, a 404 and
\* an error page
FeedFailures ==
    {TransportFailure,
     [raised |-> FALSE, status_code |-> 404, marker |-> FALSE, messages |-> <<>>],
     [raised |-> FALSE, status_code |-> 200, marker |-> TRUE, messages |-> <<>>]}

FetchPage ==
    /\ pc = "fetching"
    /\ \/ \E resp \in FeedFailures : FetchPageWith(resp)
       \/ \E n \in 0..Min2(MaxMsgs, MaxFeed - FeedUsed(served)) :
             \E m \in [1..n -> Msgs] : FetchPageWith(OkResponse(m))

SinglePostResponses ==
    ErrorResponses \cup {OkResponse(m) : m \in PagesOf(SinglePostMsgs, MaxMsgs)}

CallFetchSinglePost ==
    /\ pc = "idle"
    /\ \E ch \in Channels, id \in 1..MaxId, resp \in SinglePostResponses :
        CallFetchSinglePostWith(ch, id, resp)

Next == CallFetchPosts \/ FetchPage \/ CallFetchSinglePost

Spec == Init /\ [][Next]_vars

\* fetch_posts against the thin feed, with page budgets up to and beyond MAX_PAGES
CallFetchPostsDeep ==
    /\ pc = "idle"
    /\ \E ch \in Channels, p \in DeepPagesArgs : CallFetchPostsWith(ch, p)

ThinResponses == ErrorResponses \cup {OkResponse(m) : m \in ThinPages}

FetchPageThin ==
    /\ pc = "fetching"
    /\ \E resp \in ThinResponses : FetchPageWith(resp)

NextDeep == CallFetchPostsDeep \/ FetchPageThin

SpecDeep == Init /\ [][NextDeep]_vars

----------------------------------------------------------------------------
(* parse_post_link applied to written-out inputs *)

InitLinkOver(prefixes, bodies) ==
    /\ op = "parse_post_link"
    /\ pc = "idle"
    /\ ScraperIdle
    /\ PureIdle
    /\ \E pad \in Pads, prefix \in prefixes, body \in bodies :
          url_shape = [lead |-> pad.lead, prefix |-> prefix, body |-> body,
                       trail |-> pad.trail]
    /\ url = UrlOf(url_shape)
    /\ link_result = None
    /\ AppIdle

InitLink == InitLinkOver(Prefixes, Bodies)

CallParsePostLink ==
    /\ op = "parse_post_link"
    /\ pc = "idle"
    /\ pc' = "done"
    /\ link_result' = parse_post_link(url)
    /\ UNCHANGED <<op, url, url_shape>>
    /\ UNCHANGED scraperVars
    /\ UNCHANGED pureVars
    /\ UNCHANGED appVars

NextLink == CallParsePostLink

SpecLink == InitLink /\ [][NextLink]_vars

\* parse_post_link applied to inputs that vary the id segment
InitLinkId == InitLinkOver(IdPrefixes, IdBodies)

SpecLinkId == InitLinkId /\ [][NextLink]_vars

----------------------------------------------------------------------------
(* _normalize_channel applied to written-out inputs, and to its own result *)

InitNorm ==
    /\ op = "_normalize_channel"
    /\ pc = "idle"
    /\ \E pad \in Pads, prefix \in Prefixes, body \in NormBodies :
          url_shape = [lead |-> pad.lead, prefix |-> prefix, body |-> body,
                       trail |-> pad.trail]
    /\ channel = UrlOf(url_shape)
    /\ slug = <<>>
    /\ pagesArg = 0
    /\ post_id = 0
    /\ pages = 0
    /\ next_before = None
    /\ all_posts = <<>>
    /\ result = None
    /\ error = None
    /\ page_error = None
    /\ requests = <<>>
    /\ served = <<>>
    /\ url = <<>>
    /\ link_result = None
    /\ PureIdle
    /\ AppIdle

\* slug = _normalize_channel(channel)
CallNormalizeChannel ==
    /\ op = "_normalize_channel"
    /\ pc = "idle"
    /\ pc' = "done"
    /\ slug' = _normalize_channel(channel)
    /\ UNCHANGED <<op, channel, pagesArg, post_id, pages, next_before, all_posts,
                   result, error, page_error, requests, served>>
    /\ UNCHANGED linkVars
    /\ UNCHANGED appVars
    /\ UNCHANGED pureVars

\* _normalize_channel(slug): the function applied to its own result
CallNormalizeChannelAgain ==
    /\ op = "_normalize_channel"
    /\ pc = "done"
    /\ pc' = "again"
    /\ slug_again' = _normalize_channel(slug)
    /\ UNCHANGED <<op, textVars, fieldVars>>
    /\ UNCHANGED scraperVars
    /\ UNCHANGED linkVars
    /\ UNCHANGED appVars

NextNorm == CallNormalizeChannel \/ CallNormalizeChannelAgain

SpecNorm == InitNorm /\ [][NextNorm]_vars

----------------------------------------------------------------------------
(* split_text_once and split_text applied to bounded texts *)

InitText ==
    /\ op = "none"
    /\ pc = "idle"
    /\ ScraperIdle
    /\ url = <<>>
    /\ url_shape = NoShape
    /\ link_result = None
    /\ slug_again = <<>>
    /\ text \in Texts
    /\ max_length \in MaxLengths
    /\ remainder = <<>>
    /\ split_parts = <<>>
    /\ head = <<>>
    /\ raw = <<>>
    /\ counter = None
    /\ message_node = NoMessage
    /\ media_type = None
    /\ has_media = FALSE
    /\ AppIdle

\* head, tail = split_text_once(text, max_length)
CallSplitTextOnce ==
    /\ op = "none"
    /\ pc = "idle"
    /\ op' = "split_text_once"
    /\ pc' = "done"
    /\ head' = split_text_once(text, max_length).head
    /\ remainder' = split_text_once(text, max_length).tail
    /\ UNCHANGED <<text, max_length, split_parts, slug_again, fieldVars>>
    /\ UNCHANGED scraperVars
    /\ UNCHANGED linkVars
    /\ UNCHANGED appVars

\* split_text(text, max_length) up to the loop: the blank text returns [],
\* any other text enters the loop with its stripped form as remainder
CallSplitText ==
    /\ op = "none"
    /\ pc = "idle"
    /\ op' = "split_text"
    /\ IF text = <<>> \/ strip(text) = <<>>
       THEN pc' = "done" /\ remainder' = remainder
       ELSE pc' = "splitting" /\ remainder' = strip(text)
    /\ UNCHANGED <<text, max_length, split_parts, head, slug_again, fieldVars>>
    /\ UNCHANGED scraperVars
    /\ UNCHANGED linkVars
    /\ UNCHANGED appVars

\* one iteration of the loop of split_text
SplitTextLoop ==
    /\ op = "split_text"
    /\ pc = "splitting"
    /\ head' = split_text_once(remainder, max_length).head
    /\ remainder' = split_text_once(remainder, max_length).tail
    /\ IF split_text_once(remainder, max_length).head = <<>>
       THEN pc' = "done" /\ split_parts' = split_parts
       ELSE /\ split_parts' = Append(split_parts, split_text_once(remainder, max_length).head)
            /\ pc' = IF split_text_once(remainder, max_length).tail = <<>>
                      THEN "done" ELSE "splitting"
    /\ UNCHANGED <<op, text, max_length, slug_again, fieldVars>>
    /\ UNCHANGED scraperVars
    /\ UNCHANGED linkVars
    /\ UNCHANGED appVars

NextText == CallSplitTextOnce \/ CallSplitText \/ SplitTextLoop

SpecText == InitText /\ [][NextText]_vars

----------------------------------------------------------------------------
(* The media extractors applied to one message node *)

InitMedia ==
    /\ op = "none"
    /\ pc = "idle"
    /\ ScraperIdle
    /\ url = <<>>
    /\ url_shape = NoShape
    /\ link_result = None
    /\ slug_again = <<>>
    /\ text = <<>>
    /\ max_length = 0
    /\ remainder = <<>>
    /\ split_parts = <<>>
    /\ head = <<>>
    /\ raw = <<>>
    /\ counter = None
    /\ message_node \in MessageNodes
    /\ media_type = None
    /\ has_media = FALSE
    /\ AppIdle

\* the has_media and media_type fields _fetch_page extracts from a message
DetectMedia ==
    /\ op = "none"
    /\ pc = "idle"
    /\ op' = "_detect_media_type"
    /\ pc' = "done"
    /\ has_media' = _detect_media(message_node)
    /\ media_type' = Some(_detect_media_type(message_node))
    /\ UNCHANGED <<raw, counter, message_node, slug_again, textVars>>
    /\ UNCHANGED scraperVars
    /\ UNCHANGED linkVars
    /\ UNCHANGED appVars

NextMedia == DetectMedia

SpecMedia == InitMedia /\ [][NextMedia]_vars

----------------------------------------------------------------------------
(* _parse_counter applied to bounded tokens *)

InitCounter ==
    /\ op = "none"
    /\ pc = "idle"
    /\ ScraperIdle
    /\ url = <<>>
    /\ url_shape = NoShape
    /\ link_result = None
    /\ slug_again = <<>>
    /\ text = <<>>
    /\ max_length = 0
    /\ remainder = <<>>
    /\ split_parts = <<>>
    /\ head = <<>>
    /\ raw \in Tokens
    /\ counter = None
    /\ message_node = NoMessage
    /\ media_type = None
    /\ has_media = FALSE
    /\ AppIdle

\* counter = _parse_counter(raw)
CallParseCounter ==
    /\ op = "none"
    /\ pc = "idle"
    /\ op' = "_parse_counter"
    /\ pc' = "done"
    /\ counter' = Some(_parse_counter(raw))
    /\ UNCHANGED <<raw, message_node, media_type, has_media, slug_again, textVars>>
    /\ UNCHANGED scraperVars
    /\ UNCHANGED linkVars
    /\ UNCHANGED appVars

NextCounter == CallParseCounter

SpecCounter == InitCounter /\ [][NextCounter]_vars

----------------------------------------------------------------------------
(* fetch_posts against a feed whose permalinks are the message ids *)

\* a message of channel ch with id n: data-post "ch/n", permalink n
FeedMsgs ==
    {[anchor |-> "href", href |-> ToString(n), post_kind |-> "int",
      post_chan |-> "self", post_val |-> n] : n \in 1..MaxId}

FetchPageFeed ==
    /\ pc = "fetching"
    /\ \E n \in 0..Min2(MaxMsgs, MaxFeed - FeedUsed(served)) :
         \E m \in [1..n -> FeedMsgs] : FetchPageWith(OkResponse(m))

NextFeed == CallFetchPosts \/ FetchPageFeed

SpecFeed == Init /\ [][NextFeed]_vars

----------------------------------------------------------------------------
(* src/bot.py: main, the polling attempts and the healthcheck runner *)

\* the last value of range(1, 6)
LastAttempt == 5

\* how bot.set_my_commands can end other than by returning
CommandErrors == {"TelegramNetworkError", "TelegramUnauthorizedError"}

\* how start_healthcheck_server can end other than by returning the runner
HealthcheckErrors == {"OSError"}

\* how dp.start_polling can end other than by returning
PollingErrors == {"TelegramNetworkError", "TelegramUnauthorizedError", "CancelledError"}

\* how asyncio.sleep can end other than by returning
SleepErrors == {"CancelledError"}

\* variant: the handler retries after every TelegramNetworkError
AfterPollingAlwaysRetry(e, n) ==
    IF e = "returned" THEN "break"
    ELSE IF e = "TelegramNetworkError" THEN "retry"
    ELSE "raise"

\* what the loop body does with the way dp.start_polling ended on attempt n
AfterPolling(e, n) ==
    IF e = "returned" THEN "break"
    ELSE IF e = "TelegramNetworkError" THEN (IF n = LastAttempt THEN "raise" ELSE "retry")
    ELSE "raise"

InitMain ==
    /\ op = "none"
    /\ pc = "idle"
    /\ ScraperIdle
    /\ url = <<>>
    /\ url_shape = NoShape
    /\ link_result = None
    /\ PureIdle
    /\ AppIdle

\* main() up to the dispatcher with its routers
CallMain ==
    /\ op = "none"
    /\ pc = "idle"
    /\ op' = "main"
    /\ pc' = "set_commands"
    /\ UNCHANGED <<botVars, scraperVars, linkVars, pureVars, mainVars, urlVars, sendVars>>

\* await set_commands(bot): outside the try, an exception leaves main at once
SetCommands ==
    /\ op = "main"
    /\ pc = "set_commands"
    /\ \E e \in {"returned"} \cup CommandErrors :
          IF e = "returned"
          THEN pc' = "start_healthcheck" /\ raised' = raised
          ELSE pc' = "exited" /\ raised' = Some(e)
    /\ UNCHANGED <<op, attempt, runner, polls, handled, sleeps, pending>>
    /\ UNCHANGED <<botVars, scraperVars, linkVars, pureVars, urlVars, sendVars>>

\* healthcheck_runner = await start_healthcheck_server(...): outside the try
StartHealthcheck ==
    /\ op = "main"
    /\ pc = "start_healthcheck"
    /\ \E e \in {"returned"} \cup HealthcheckErrors :
          IF e = "returned"
          THEN pc' = "poll" /\ runner' = "running" /\ raised' = raised
          ELSE pc' = "exited" /\ runner' = runner /\ raised' = Some(e)
    /\ UNCHANGED <<op, attempt, polls, handled, sleeps, pending>>
    /\ UNCHANGED <<botVars, scraperVars, linkVars, pureVars, urlVars, sendVars>>

\* the head of the for loop and the call of dp.start_polling; an exhausted
\* range leaves the loop
StartPolling ==
    /\ op = "main"
    /\ pc = "poll"
    /\ IF attempt = LastAttempt
       THEN pc' = "finally" /\ attempt' = attempt
       ELSE pc' = "polling" /\ attempt' = attempt + 1
    /\ UNCHANGED <<op, runner, polls, handled, sleeps, pending, raised>>
    /\ UNCHANGED <<botVars, scraperVars, linkVars, pureVars, urlVars, sendVars>>

\* while dp.start_polling runs, the dispatcher takes an update and hands it
\* to a handler
HandleUpdate ==
    /\ op = "main"
    /\ pc = "polling"
    /\ handled < MaxUpdates
    /\ handled' = handled + 1
    /\ UNCHANGED <<op, pc, attempt, runner, polls, sleeps, pending, raised>>
    /\ UNCHANGED <<botVars, scraperVars, linkVars, pureVars, urlVars, sendVars>>

\* dp.start_polling ends, and the loop body breaks, retries or re-raises
PollingEnds ==
    /\ op = "main"
    /\ pc = "polling"
    /\ \E e \in {"returned"} \cup PollingErrors :
          /\ polls' = Append(polls, e)
          /\ pc' = IF AfterPolling(e, attempt) = "retry" THEN "sleep" ELSE "finally"
          /\ pending' = IF AfterPolling(e, attempt) = "raise" THEN Some(e) ELSE pending
    /\ UNCHANGED <<op, attempt, runner, handled, sleeps, raised>>
    /\ UNCHANGED <<botVars, scraperVars, linkVars, pureVars, urlVars, sendVars>>

\* await asyncio.sleep(10) between two attempts
Sleep ==
    /\ op = "main"
    /\ pc = "sleep"
    /\ \E e \in {"returned"} \cup SleepErrors :
          IF e = "returned"
          THEN pc' = "poll" /\ sleeps' = sleeps + 1 /\ pending' = pending
          ELSE pc' = "finally" /\ sleeps' = sleeps /\ pending' = Some(e)
    /\ UNCHANGED <<op, attempt, runner, polls, handled, raised>>
    /\ UNCHANGED <<botVars, scraperVars, linkVars, pureVars, urlVars, sendVars>>

\* finally: await healthcheck_runner.cleanup(), then the exception in flight
\* goes on to the caller
Cleanup ==
    /\ op = "main"
    /\ pc = "finally"
    /\ runner' = "cleaned"
    /\ raised' = pending
    /\ pc' = "exited"
    /\ UNCHANGED <<op, attempt, polls, handled, sleeps, pending>>
    /\ UNCHANGED <<botVars, scraperVars, linkVars, pureVars, urlVars, sendVars>>

NextMain ==
    \/ CallMain
    \/ SetCommands
    \/ StartHealthcheck
    \/ StartPolling
    \/ HandleUpdate
    \/ PollingEnds
    \/ Sleep
    \/ Cleanup

SpecMain == InitMain /\ [][NextMain]_vars

----------------------------------------------------------------------------
(* The URL extractors applied to one message element *)

InitUrl ==
    /\ op = "none"
    /\ pc = "idle"
    /\ ScraperIdle
    /\ url = <<>>
    /\ url_shape = NoShape
    /\ link_result = None
    /\ PureIdle
    /\ MainIdle
    /\ SendIdle
    /\ ChatIdle
    /\ LoopIdle
    /\ message_tree \in MessageTrees
    /\ photo_url = None
    /\ video_url = None

\* "photo_url": _extract_photo_url(message), "video_url": _extract_video_url(message)
ExtractUrls ==
    /\ op = "none"
    /\ pc = "idle"
    /\ op' = "_extract_photo_url"
    /\ pc' = "done"
    /\ photo_url' = _extract_photo_url(message_tree)
    /\ video_url' = _extract_video_url(message_tree)
    /\ UNCHANGED <<message_tree, botVars, scraperVars, linkVars, pureVars, mainVars, sendVars>>

NextUrl == ExtractUrls

SpecUrl == InitUrl /\ [][NextUrl]_vars

----------------------------------------------------------------------------
(* src/handlers/channel_handler.py: send_rewritten_post *)

\* the delivery alternatives in the order of the function's text
Alternatives == <<"video_file_id", "video_url", "photo_file_id", "photo_url">>

\* variant: the photo by file id comes before the video by URL
AfterPhotoFirst(a) ==
    CASE a = "video_file_id" -> "photo_file_id"
      [] a = "photo_file_id" -> "video_url"
      [] a = "video_url" -> "photo_url"
      [] a = "photo_url" -> "text"

\* where control goes when alternative a is absent or given up
After(a) ==
    CASE a = "video_file_id" -> "video_url"
      [] a = "video_url" -> "photo_file_id"
      [] a = "photo_file_id" -> "photo_url"
      [] a = "photo_url" -> "text"

\* has_media = bool(video_file_id or video_url or photo_file_id or photo_url)
post_has_media ==
    \/ post.video_file_id # None
    \/ post.video_url # None
    \/ post.photo_file_id # None
    \/ post.photo_url # None

\* variant: the whole rewritten text is the caption
caption_whole == rewritten

\* caption, remainder = split_text_once(rewritten, MAX_CAPTION_LENGTH)
caption == split_text_once(rewritten, caption_limit).head

caption_remainder == split_text_once(rewritten, caption_limit).tail

\* extra_text_chunks = split_text(remainder, MAX_MESSAGE_LENGTH) if remainder else []
extra_text_chunks ==
    IF caption_remainder # <<>> THEN split_text(caption_remainder, message_limit) ELSE <<>>

\* text_chunks = split_text(rewritten, MAX_MESSAGE_LENGTH)
text_chunks == split_text(rewritten, message_limit)

\* message.answer_video / message.answer_photo with the caption
MediaMessage(a, how) ==
    [method |-> IF a \in {"video_file_id", "video_url"} THEN "answer_video" ELSE "answer_photo",
     media |-> how, text |-> caption]

\* message.answer(chunk, parse_mode=None)
TextMessage(t) == [method |-> "answer", media |-> "none", text |-> t]

\* the media message of alternative a went out: the extra chunks follow
\* inside the same try block, or the function returns
MediaSent(a, how) ==
    /\ sent' = Append(sent, MediaMessage(a, how))
    /\ failed' = failed
    /\ IF extra_text_chunks # <<>>
       THEN pc' = "extra_text_chunks" /\ branch' = a /\ chunk' = 1
       ELSE pc' = "returned" /\ branch' = branch /\ chunk' = chunk

\* alternative a is given up: its except clause logs, or its download was
\* no use, and the function goes on below
GiveUp(a) ==
    /\ sent' = sent
    /\ failed' = failed \cup {a}
    /\ pc' = After(a)
    /\ branch' = branch
    /\ chunk' = chunk

\* how a download and the send after it can end: the request or the read
\* raises, the status is not 200, the video is over 50 MB, the send raises,
\* the send succeeds
DownloadOutcomes(a) ==
    {"exception", "status", "send_failed", "sent"}
        \cup (IF a = "video_url" THEN {"too_large"} ELSE {})

\* the posts: every media field present or absent
Posts ==
    [video_file_id : {None, Some(<<"v">>)}, video_url : {None, Some(<<"h", ":", "v">>)},
     photo_file_id : {None, Some(<<"p">>)}, photo_url : {None, Some(<<"h", ":", "p">>)}]

\* the rewritten texts: words and spaces
RewrittenChars == {"a", " "}

Rewrites == UNION {[1..n -> RewrittenChars] : n \in 0..MaxRewritten}

InitSend ==
    /\ op = "none"
    /\ pc = "idle"
    /\ ScraperIdle
    /\ url = <<>>
    /\ url_shape = NoShape
    /\ link_result = None
    /\ PureIdle
    /\ MainIdle
    /\ UrlIdle
    /\ ChatIdle
    /\ LoopIdle
    /\ post \in Posts
    /\ rewritten \in Rewrites
    /\ caption_limit \in 1..MaxLen
    /\ message_limit \in caption_limit..MaxLen
    /\ branch = "none"
    /\ chunk = 0
    /\ tried = <<>>
    /\ failed = {}
    /\ sent = <<>>

\* send_rewritten_post(message, post, ...) up to the first alternative
CallSendRewrittenPost ==
    /\ op = "none"
    /\ pc = "idle"
    /\ op' = "send_rewritten_post"
    /\ pc' = "video_file_id"
    /\ UNCHANGED <<botVars, scraperVars, linkVars, pureVars, mainVars, urlVars, sendVars>>

\* if video_file_id / if photo_file_id: send the media by its file id
SendByFileId ==
    /\ op = "send_rewritten_post"
    /\ pc \in {"video_file_id", "photo_file_id"}
    /\ IF post[pc] = None
       THEN pc' = After(pc) /\ UNCHANGED <<branch, chunk, tried, failed, sent>>
       ELSE /\ tried' = Append(tried, pc)
            /\ \E ok \in BOOLEAN : IF ok THEN MediaSent(pc, "file_id") ELSE GiveUp(pc)
    /\ UNCHANGED <<op, post, rewritten, caption_limit, message_limit>>
    /\ UNCHANGED <<botVars, scraperVars, linkVars, pureVars, mainVars, urlVars>>

\* if video_url / if photo_url: download the media and send it as a file
DownloadAndSend ==
    /\ op = "send_rewritten_post"
    /\ pc \in {"video_url", "photo_url"}
    /\ IF post[pc] = None
       THEN pc' = After(pc) /\ UNCHANGED <<branch, chunk, tried, failed, sent>>
       ELSE /\ tried' = Append(tried, pc)
            /\ \E outcome \in DownloadOutcomes(pc) :
                  IF outcome = "sent" THEN MediaSent(pc, "upload") ELSE GiveUp(pc)
    /\ UNCHANGED <<op, post, rewritten, caption_limit, message_limit>>
    /\ UNCHANGED <<botVars, scraperVars, linkVars, pureVars, mainVars, urlVars>>

\* one message.answer of send_text_chunks(extra_text_chunks), inside the try
\* block of the alternative whose media went out: after the last chunk the
\* function returns, an exception lands in that alternative's except clause
SendExtraChunk ==
    /\ op = "send_rewritten_post"
    /\ pc = "extra_text_chunks"
    /\ \E ok \in BOOLEAN :
          IF ok
          THEN /\ sent' = Append(sent, TextMessage(extra_text_chunks[chunk]))
               /\ failed' = failed
               /\ chunk' = chunk + 1
               /\ pc' = IF chunk = Len(extra_text_chunks) THEN "returned" ELSE pc
          ELSE /\ sent' = sent
               /\ failed' = failed \cup {branch}
               /\ chunk' = chunk
               /\ pc' = After(branch)
    /\ UNCHANGED <<op, post, rewritten, caption_limit, message_limit, branch, tried>>
    /\ UNCHANGED <<botVars, scraperVars, linkVars, pureVars, mainVars, urlVars>>

\* the fallback: nothing to send without media and without text, else
\* send_text_chunks(text_chunks)
Fallback ==
    /\ op = "send_rewritten_post"
    /\ pc = "text"
    /\ IF (~post_has_media /\ text_chunks = <<>>) \/ text_chunks = <<>>
       THEN pc' = "returned" /\ UNCHANGED <<chunk, tried>>
       ELSE pc' = "text_chunks" /\ chunk' = 1 /\ tried' = Append(tried, "text")
    /\ UNCHANGED <<op, post, rewritten, caption_limit, message_limit, branch, failed, sent>>
    /\ UNCHANGED <<botVars, scraperVars, linkVars, pureVars, mainVars, urlVars>>

\* one message.answer of send_text_chunks(text_chunks): an exception leaves
\* send_rewritten_post
SendTextChunk ==
    /\ op = "send_rewritten_post"
    /\ pc = "text_chunks"
    /\ \E ok \in BOOLEAN :
          IF ok
          THEN /\ sent' = Append(sent, TextMessage(text_chunks[chunk]))
               /\ failed' = failed
               /\ chunk' = chunk + 1
               /\ pc' = IF chunk = Len(text_chunks) THEN "returned" ELSE pc
          ELSE /\ sent' = sent
               /\ failed' = failed \cup {"text"}
               /\ chunk' = chunk
               /\ pc' = "raised"
    /\ UNCHANGED <<op, post, rewritten, caption_limit, message_limit, branch, tried>>
    /\ UNCHANGED <<botVars, scraperVars, linkVars, pureVars, mainVars, urlVars>>

NextSend ==
    \/ CallSendRewrittenPost
    \/ SendByFileId
    \/ DownloadAndSend
    \/ SendExtraChunk
    \/ Fallback
    \/ SendTextChunk

SpecSend == InitSend /\ [][NextSend]_vars

----------------------------------------------------------------------------
(* src/handlers: the message handlers and the conversation state of a chat *)

\* MAX_POSTS_IN_SUMMARY
MAX_POSTS_IN_SUMMARY == 20

\* the length below which handle_forwarded_post refuses a text
MinForwardedLength == 10

\* the length below which cmd_prompt refuses a prompt
MinPromptLength == 5

\* does s contain the literal sub
Contains(s, sub) ==
    \E i \in 1..(Len(s) - Len(sub) + 1) : SubSeq(s, i, i + Len(sub) - 1) = sub

\* str.lower(), for the letters lower knows
lowerStr(s) == [i \in 1..Len(s) |-> lower(s[i])]

\* any(x in s.lower() for x in ["t.me", "@", "http"])
LooksLikeLink(s) ==
    \/ Contains(lowerStr(s), <<"t", ".", "m", "e">>)
    \/ Contains(lowerStr(s), <<"@">>)
    \/ Contains(lowerStr(s), <<"h", "t", "t", "p">>)

LatinLetters ==
    {"a", "b", "c", "d", "e", "f", "g", "h", "i", "j", "k", "l", "m",
     "n", "o", "p", "q", "r", "s", "t", "u", "v", "w", "x", "y", "z"}

\* is_valid_channel_username: Latin letters, digits and underscore only,
\* 5 to 32 characters, not starting with a digit
is_valid_channel_username(s) ==
    /\ Len(s) >= 5
    /\ Len(s) <= 32
    /\ \A i \in 1..Len(s) : s[i] \in LatinLetters \cup Digits \cup {"_"}
    /\ s[1] \notin Digits

\* the first whitespace of s (0 if none)
FirstWhitespace(s) ==
    IF \A i \in 1..Len(s) : s[i] \notin Whitespace THEN 0
    ELSE CHOOSE i \in 1..Len(s) :
             s[i] \in Whitespace /\ \A j \in 1..(i - 1) : s[j] \notin Whitespace

\* s.split(maxsplit=1) of a string that starts with a non-blank character
SplitFirstWord(s) ==
    LET k == FirstWhitespace(s)
        rest == IF k = 0 THEN <<>> ELSE strip(Drop(s, k))
    IN  IF rest = <<>> THEN <<rstripSet(s, Whitespace)>>
        ELSE <<SubSeq(s, 1, k - 1), lstripSet(Drop(s, k), Whitespace)>>

\* the commands start_handler.router registers, in order
Commands ==
    <<<<"s", "t", "a", "r", "t">>,
      <<"h", "e", "l", "p">>,
      <<"s", "e", "t", "t", "i", "n", "g", "s">>,
      <<"m", "o", "d", "e", "l">>,
      <<"p", "r", "o", "m", "p", "t">>>>

\* message.text or message.caption or ""
TextOrCaption(u) ==
    IF u.text # None /\ u.text[1] # <<>> THEN u.text[1]
    ELSE IF u.caption # None THEN u.caption[1]
    ELSE <<>>

\* the Command filter: the command a message carries (None if none)
CommandOf(u) ==
    LET t == TextOrCaption(u)
        word == IF t = <<>> \/ t[1] \in Whitespace THEN <<>> ELSE SplitFirstWord(t)[1]
    IN  IF word # <<>> /\ word[1] = "/" /\ \E i \in 1..Len(Commands) : Commands[i] = Tail(word)
        THEN Some(Tail(word))
        ELSE None

\* The handler the dispatcher hands a message to: the routers in the order
\* main includes them, the handlers of a router in the order they are
\* registered, the first whose filter passes.
Route(state, u) ==
    IF CommandOf(u) # None THEN "command"
    ELSE IF state = "waiting_for_selection" THEN "handle_post_selection"
    ELSE IF u.forward_from_chat THEN "handle_forwarded_post"
    ELSE IF u.text # None /\ u.text[1] # <<>> THEN "handle_channel_link"
    ELSE "unhandled"

\* a post of a channel as the handlers carry it
ScannedPost(s, id) == [source |-> "channel", slug |-> s, id |-> id, text |-> <<>>]

\* post_data of handle_forwarded_post
ForwardedPost(t) == [source |-> "forwarded_post", slug |-> <<>>, id |-> 0, text |-> t]

\* how many posts a scan returns: few, and around MAX_POSTS_IN_SUMMARY
ScanSizes == {1, 2} \cup (MAX_POSTS_IN_SUMMARY..MaxScan)

\* variant: fetch_posts returns an empty list instead of raising
FetchPostsOutcomesEmpty(ch) ==
    {None} \cup {Some([i \in 1..n |-> ScannedPost(_normalize_channel(ch), n + 1 - i)]) : n \in ScanSizes \cup {0}}

\* What TelegramWebScraper().fetch_posts(channel, pages=MAX_PAGES_PER_REQUEST)
\* gives the handler: None when it raises, else Some(posts), the posts
\* newest first and at least one.
FetchPostsOutcomes(ch) ==
    {None} \cup {Some([i \in 1..n |-> ScannedPost(_normalize_channel(ch), n + 1 - i)]) : n \in ScanSizes}

\* what fetch_single_post gives the handler: None when it raises
FetchSinglePostOutcomes(info) == {None, Some(ScannedPost(info[1], info[2]))}

\* How the sends to Telegram of one handler run go: "ok"; "no_status", the
\* status message of with_status_message cannot be sent; "raises", a send
\* after it raises.  The handler's reply is then "error"; it is "fetch_error"
\* when the scraper raised its TelegramWebError.
Deliveries == {"ok", "no_status", "raises"}

\* format_summary: the range announced in the header and the posts shown
\* as "Пост #i" (None for the "no posts" message)
format_summary(posts) ==
    IF posts = <<>> THEN None
    ELSE LET shown == SubSeq(posts, 1, Min2(Len(posts), MAX_POSTS_IN_SUMMARY))
         IN  Some([announced |-> Len(shown), shown |-> shown])

\* the handler run ends: what it leaves behind
Handled(path, answer, passed, state, data, shown) ==
    /\ handler' = path
    /\ reply' = answer
    /\ rewrote' = passed
    /\ fsm_state' = state
    /\ fsm_data' = data
    /\ summary' = shown

\* the handler answers and changes nothing
Answered(path, answer) ==
    Handled(path, answer, None, fsm_state, fsm_data, summary)

\* with_status_message around send_rewritten_post(message, p, ...)
Rewrite(path, p, d, state) ==
    CASE d = "no_status" -> Answered(path, "none")
      [] d = "raises" -> Handled(path, "error", Some(p), fsm_state, fsm_data, summary)
      [] d = "ok" -> Handled(path, "rewrite", Some(p), state, fsm_data, summary)

handle_channel_scan(path, ch) ==
    \E f \in FetchPostsOutcomes(ch), d \in Deliveries :
        CASE d = "no_status" -> Answered(path, "none")
          [] d # "no_status" /\ f = None -> Answered(path, "fetch_error")
          [] d = "raises" /\ f # None ->
                Handled(path, "error", None, "waiting_for_selection",
                        [fsm_data EXCEPT !.posts = f], summary)
          [] d = "ok" /\ f # None ->
                Handled(path, "summary", None, "waiting_for_selection",
                        [fsm_data EXCEPT !.posts = f], format_summary(f[1]))

handle_direct_post_link(path, info) ==
    \E f \in FetchSinglePostOutcomes(info), d \in Deliveries :
        IF d # "no_status" /\ f = None
        THEN Answered(path, "fetch_error")
        ELSE Rewrite(path, IF f = None THEN ScannedPost(info[1], info[2]) ELSE f[1], d, fsm_state)

handle_channel_link(path, u) ==
    IF u.text = None \/ u.text[1] = <<>>
    THEN Answered(path, "none")
    ELSE LET stripped == strip(u.text[1])
             bare == ~LooksLikeLink(stripped)
             named == bare /\ ~Contains(stripped, <<"/">>) /\ Len(stripped) > 3
             ch == IF named THEN <<"@">> \o stripped ELSE stripped
         IN  IF bare /\ ~named THEN Answered(path, "invalid_link")
             ELSE IF named /\ ~is_valid_channel_username(stripped)
                  THEN Answered(path, "invalid_name")
             ELSE IF parse_post_link(ch) # None
                  THEN handle_direct_post_link(Append(path, "handle_direct_post_link"),
                                               parse_post_link(ch)[1])
             ELSE handle_channel_scan(Append(path, "handle_channel_scan"), ch)

handle_post_selection(u) ==
    LET path == <<"handle_post_selection">>
        stripped == strip(IF u.text = None THEN <<>> ELSE u.text[1])
        posts == IF fsm_data.posts = None THEN <<>> ELSE fsm_data.posts[1]
    IN  IF stripped = <<>> THEN Answered(path, "none")
        ELSE IF ~isdigit(stripped)
             THEN IF LooksLikeLink(stripped) \/ is_valid_channel_username(stripped)
                  THEN handle_channel_link(Append(path, "handle_channel_link"), u)
                  ELSE Answered(path, "not_a_number")
        ELSE IF intRaises(stripped) THEN Answered(path, "raised")
        ELSE IF posts = <<>>
             THEN Handled(path, "empty_list", None, "none", NoData, summary)
        ELSE IF ~(1 <= intOf(stripped) /\ intOf(stripped) <= Len(posts))
             THEN Answered(path, "invalid_number")
        ELSE \E d \in Deliveries :
                 Rewrite(path, posts[intOf(stripped)], d, "waiting_for_selection")

handle_forwarded_post(u) ==
    LET path == <<"handle_forwarded_post">>
        t == TextOrCaption(u)
    IN  IF Len(t) < MinForwardedLength THEN Answered(path, "too_short")
        ELSE \E d \in Deliveries : Rewrite(path, ForwardedPost(t), d, fsm_state)

\* cmd_prompt stores the prompt; the other commands only answer
command(u) ==
    LET name == CommandOf(u)[1]
        path == <<<<"c", "m", "d", "_">> \o name>>
        args == SplitFirstWord(TextOrCaption(u))
    IN  IF name # Commands[5] THEN Answered(path, "command")
        ELSE IF u.text = None \/ Len(args) < 2 THEN Answered(path, "prompt_missing")
        ELSE IF Len(strip(args[2])) < MinPromptLength THEN Answered(path, "prompt_short")
        ELSE Handled(path, "prompt_set", None, fsm_state,
                     [fsm_data EXCEPT !.rewrite_prompt = Some(strip(args[2]))], summary)

\* the decimal numeral of a natural number
RECURSIVE NumeralOf(_)
NumeralOf(n) ==
    IF n < 10 THEN <<DigitChar(n)>> ELSE Append(NumeralOf(n \div 10), DigitChar(n % 10))

\* post numbers a user sends: around the ends of the announced range and of
\* the largest batch
SelectionNumbers == {0, 1, 2, MAX_POSTS_IN_SUMMARY, MAX_POSTS_IN_SUMMARY + 1, MaxScan, MaxScan + 1}

TextMessages ==
    {NumeralOf(k) : k \in SelectionNumbers}
    \cup {<<" ", "2", " ">>,
          <<"@", "c", "h", "a", "n">>,
          <<"@", "c", "h", "a", "n", "/", "7">>,
          <<"c", "h", "a", "n", "n">>,
          <<"a", "b", "c", "d">>,
          <<"o", "k", "?">>,
          <<"/", "s", "e", "t", "t", "i", "n", "g", "s">>,
          <<"/", "p", "r", "o", "m", "p", "t">>,
          <<"/", "p", "r", "o", "m", "p", "t", " ", "f", "u", "n", "n", "y">>}

\* texts of posts forwarded from a channel: eleven characters, five
\* characters, eleven characters with a link in them
ForwardedTexts ==
    {<<"h", "e", "l", "l", "o", " ", "w", "o", "r", "l", "d">>,
     <<"s", "h", "o", "r", "t">>,
     <<"s", "e", "e", " ", "t", ".", "m", "e", "/", "c", "h">>}

\* the messages a chat sends: plain texts, forwarded posts with a text,
\* forwarded media posts with a caption, a message without text
Updates ==
    {[forward_from_chat |-> FALSE, text |-> Some(t), caption |-> None] : t \in TextMessages}
    \cup {[forward_from_chat |-> TRUE, text |-> Some(t), caption |-> None] : t \in ForwardedTexts}
    \cup {[forward_from_chat |-> TRUE, text |-> None, caption |-> Some(t)] : t \in ForwardedTexts}
    \cup {NoUpdate}

InitChat ==
    /\ op = "none"
    /\ pc = "idle"
    /\ ScraperIdle
    /\ url = <<>>
    /\ url_shape = NoShape
    /\ link_result = None
    /\ PureIdle
    /\ AppIdle

\* the dispatcher takes a message of the chat and hands it to a handler
Dispatch(name, u) ==
    /\ op \in {"none", "dispatch"}
    /\ turns < MaxTurns
    /\ Route(fsm_state, u) = name
    /\ op' = "dispatch"
    /\ pc' = "handled"
    /\ update' = u
    /\ turns' = turns + 1
    /\ UNCHANGED <<loopVars, scraperVars, linkVars, pureVars, mainVars, urlVars, sendVars>>

Command == \E u \in Updates : Dispatch("command", u) /\ command(u)

HandlePostSelection ==
    \E u \in Updates : Dispatch("handle_post_selection", u) /\ handle_post_selection(u)

HandleForwardedPost ==
    \E u \in Updates : Dispatch("handle_forwarded_post", u) /\ handle_forwarded_post(u)

HandleChannelLink ==
    \E u \in Updates :
        Dispatch("handle_channel_link", u) /\ handle_channel_link(<<"handle_channel_link">>, u)

\* no filter passes: the update is dropped
Unhandled == \E u \in Updates : Dispatch("unhandled", u) /\ Answered(<<>>, "none")

NextChat ==
    \/ Command
    \/ HandlePostSelection
    \/ HandleForwardedPost
    \/ HandleChannelLink
    \/ Unhandled

SpecChat == InitChat /\ [][NextChat]_vars

----------------------------------------------------------------------------
(* The handlers as tasks of the event loop *)

\* The dispatcher runs every update's handler as a task of the one event
\* loop that also serves the health endpoint.  A step of a task runs on the
\* loop's thread from one await that suspends to the next; a call that does
\* not await keeps the thread until it returns.
\*   task_pc : "idle", "ready" (arrived, not yet run), "status" (awaiting the
\*             send of the status message), "fetching" (inside fetch_posts or
\*             fetch_single_post, waiting for the response), "rewriting"
\*             (awaiting asyncio.to_thread in rewrite_post), "sending"
\*             (awaiting the last sends)
\*   task_kind : "scan" (a channel link), "post" (a direct post link),
\*             "health" (a GET of the health endpoint)
KindsOf(t) == IF t = "health" THEN {"health"} ELSE {"scan", "post"}

InitLoop ==
    /\ op = "none"
    /\ pc = "idle"
    /\ ScraperIdle
    /\ url = <<>>
    /\ url_shape = NoShape
    /\ link_result = None
    /\ PureIdle
    /\ AppIdle

LoopStep ==
    /\ op' = "loop"
    /\ UNCHANGED <<pc, chatVars, scraperVars, linkVars, pureVars, mainVars, urlVars, sendVars>>

\* an update of a chat or a request to the health endpoint arrives
Arrive ==
    \E t \in Tasks : \E k \in KindsOf(t) :
        /\ op \in {"none", "loop"}
        /\ arrivals < MaxArrivals
        /\ task_pc[t] = "idle"
        /\ task_pc' = [task_pc EXCEPT ![t] = "ready"]
        /\ task_kind' = [task_kind EXCEPT ![t] = k]
        /\ arrivals' = arrivals + 1
        /\ UNCHANGED running
        /\ LoopStep

\* the loop starts the handler of a chat's message: it runs up to the await
\* of the status message in with_status_message
StartHandler(t) ==
    /\ running = None
    /\ t # "health"
    /\ task_pc[t] = "ready"
    /\ task_pc' = [task_pc EXCEPT ![t] = "status"]
    /\ UNCHANGED <<task_kind, running, arrivals>>
    /\ LoopStep

\* the loop serves a request to the health endpoint
ServeHealth ==
    /\ running = None
    /\ task_pc["health"] = "ready"
    /\ task_pc' = [task_pc EXCEPT !["health"] = "idle"]
    /\ UNCHANGED <<task_kind, running, arrivals>>
    /\ LoopStep

\* The loop resumes the handler after the status message; the handler calls
\* fetch_posts or fetch_single_post, whose session.get waits for the
\* response on the loop's thread.
CallFetch(t) ==
    /\ running = None
    /\ task_pc[t] = "status"
    /\ task_pc' = [task_pc EXCEPT ![t] = "fetching"]
    /\ running' = Some(t)
    /\ UNCHANGED <<task_kind, arrivals>>
    /\ LoopStep

\* The response (or the timeout) arrives and the fetch returns or raises; the
\* handler runs on to its next await: the rewrite of the fetched post in a
\* worker thread, or a send.
FetchReturns(t) ==
    /\ task_pc[t] = "fetching"
    /\ running \in {None, Some(t)}
    /\ \E fetched \in BOOLEAN :
           task_pc' = [task_pc EXCEPT ![t] =
                          IF fetched /\ task_kind[t] = "post" THEN "rewriting" ELSE "sending"]
    /\ running' = None
    /\ UNCHANGED <<task_kind, arrivals>>
    /\ LoopStep

\* the worker thread of rewrite_post is done and the loop resumes the handler
RewriteReturns(t) ==
    /\ running = None
    /\ task_pc[t] = "rewriting"
    /\ task_pc' = [task_pc EXCEPT ![t] = "sending"]
    /\ UNCHANGED <<task_kind, running, arrivals>>
    /\ LoopStep

\* the last send is done and the handler returns
Finish(t) ==
    /\ running = None
    /\ task_pc[t] = "sending"
    /\ task_pc' = [task_pc EXCEPT ![t] = "idle"]
    /\ UNCHANGED <<task_kind, running, arrivals>>
    /\ LoopStep

StartHandlers == \E t \in Tasks : StartHandler(t)

CallFetches == \E t \in Tasks : CallFetch(t)

FetchesReturn == \E t \in Tasks : FetchReturns(t)

RewritesReturn == \E t \in Tasks : RewriteReturns(t)

Finishes == \E t \in Tasks : Finish(t)

NextLoop ==
    \/ Arrive
    \/ StartHandlers
    \/ ServeHealth
    \/ CallFetches
    \/ FetchesReturn
    \/ RewritesReturn
    \/ Finishes

SpecLoop == InitLoop /\ [][NextLoop]_vars

----------------------------------------------------------------------------
(* Vocabulary of the properties, read off the served responses *)

\* a response that is a normal page: status 200 without the error marker
IsPage(r) == ~r.raised /\ r.status_code = 200 /\ ~r.marker

\* a message with a usable permalink
HasPermalink(m) == m.anchor = "href" /\ m.href # ""

\* positions of the messages with permalink on a served page
LinkedOn(r) == {i \in 1..Len(r.messages) : HasPermalink(r.messages[i])}

\* the ids readable on the posts of a served page
IdsOn(r) ==
    {r.messages[i].post_val : i \in {j \in LinkedOn(r) : r.messages[j].post_kind = "int"}}

RECURSIVE TotalLinkedIn(_)
TotalLinkedIn(resps) ==
    IF resps = <<>> THEN 0
    ELSE Cardinality(LinkedOn(Head(resps))) + TotalLinkedIn(Tail(resps))

\* number of posts the served pages hold
TotalLinked == TotalLinkedIn(served)

\* number of served messages whose permalink is h
ServedWithLink(h) ==
    Cardinality({<<k, i>> \in (1..Len(served)) \X (1..MaxFeed) :
                    /\ i \in LinkedOn(served[k])
                    /\ served[k].messages[i].href = h})

AllPages == \A k \in 1..Len(served) : IsPage(served[k])

Returned == op = "fetch_posts" /\ pc = "done"

\* the id a post is ordered by: its extracted id, 0 if none was extracted
OrderId(p) == IF p.message_id = None THEN 0 ELSE p.message_id[1]

\* where the j-th extracted post belongs: after every post of larger id and
\* after the earlier-extracted posts of equal id
PlaceOf(j) ==
    1 + Cardinality({k \in 1..Len(all_posts) : OrderId(all_posts[k]) > OrderId(all_posts[j])})
      + Cardinality({k \in 1..(j - 1) : OrderId(all_posts[k]) = OrderId(all_posts[j])})

----------------------------------------------------------------------------
(* Properties *)

\* C1: whatever pages were served, fetch_posts returns the extracted posts
\* ordered by internal id descending, a post without extracted id counting as
\* id 0 and posts of equal id keeping their extraction order.
C1_NewestFirst ==
    Returned =>
        /\ Len(result[1]) = Len(all_posts)
        /\ \A j \in 1..Len(all_posts) :
              /\ result[1][PlaceOf(j)].post_link = all_posts[j].post_link
              /\ result[1][PlaceOf(j)].channel_slug = all_posts[j].channel_slug

\* a return of three posts extracted out of id order (no id, 2, 0): the post
\* without id and the post of id 0 are tied and carry different permalinks
C1_Witness ==
    /\ Returned
    /\ Len(all_posts) = 3
    /\ all_posts[1].message_id = None
    /\ all_posts[2].message_id = Some(2)
    /\ all_posts[3].message_id = Some(0)
    /\ all_posts[1].post_link # all_posts[3].post_link
    /\ result[1][1].post_link = all_posts[2].post_link

\* C2: no record returned by fetch_posts or fetch_single_post has the
\* message_id field.
C2_NoInternalId ==
    /\ Returned => \A i \in 1..Len(result[1]) : "message_id" \notin DOMAIN result[1][i]
    /\ (op = "fetch_single_post" /\ pc = "done") => "message_id" \notin DOMAIN result[1]

\* a return holding a post whose id was extracted and one whose id was not
C2_Witness ==
    /\ Returned
    /\ \E i, j \in 1..Len(all_posts) :
          all_posts[i].message_id = None /\ all_posts[j].message_id = Some(3)
    /\ Len(served) = 2

\* C3: a 404 or a transport failure on page k ends fetch_posts at once with
\* the matching failure: it is the last request, and nothing is returned,
\* whatever pages 1..k-1 held.
C3_AbortWithoutPartial ==
    op = "fetch_posts" =>
        \A k \in 1..Len(served) :
            (served[k].raised \/ served[k].status_code = 404) =>
                /\ k = Len(served)
                /\ Len(requests) = k
                /\ pc = "failed"
                /\ result = None
                /\ error = IF served[k].raised
                           THEN Some(Error("TransportError", 0))
                           ELSE Some(Error("NotFoundOrPrivate", 0))

\* a 404 on the third page after two pages that yielded posts
C3_Witness ==
    /\ op = "fetch_posts"
    /\ Len(served) = 3
    /\ served[3].status_code = 404
    /\ Len(all_posts) >= 2
    /\ pc = "failed"

\* C4: the page fetcher maps every request outcome onto one error kind:
\* transport failure, 404, 403/429, other non-200 (with the code), 200 with
\* the error marker; the marker counts only under status 200, and 200
\* without marker raises nothing.  What it raises reaches the caller as is.
C4_ErrorTaxonomy ==
    (op = "fetch_posts" /\ served # <<>>) =>
        LET r == served[Len(served)] IN
        /\ r.raised => page_error = Some(Error("TransportError", 0))
        /\ (~r.raised /\ r.status_code = 404) =>
              page_error = Some(Error("NotFoundOrPrivate", 0))
        /\ (~r.raised /\ r.status_code \in {403, 429}) =>
              page_error = Some(Error("AccessBlocked", r.status_code))
        /\ (~r.raised /\ r.status_code \notin {200, 403, 404, 429}) =>
              page_error = Some(Error("UnexpectedStatus", r.status_code))
        /\ (~r.raised /\ r.status_code = 200 /\ r.marker) =>
              page_error = Some(Error("UpstreamErrorPage", 0))
        /\ (~r.raised /\ r.status_code = 200 /\ ~r.marker) => page_error = None
        /\ page_error # None => (pc = "failed" /\ error = page_error)

\* a 429 whose body carries the error marker, on a later page
C4_Witness ==
    /\ op = "fetch_posts"
    /\ Len(served) = 2
    /\ served[2].status_code = 429
    /\ served[2].marker
    /\ page_error = Some(Error("AccessBlocked", 429))

\* C5 as claimed: the first request carries no cursor, request k+1 carries
\* the minimum internal id over the posts of page k, and is not issued when
\* that minimum is <= 1.
C5_CursorIsPageMinimum ==
    op = "fetch_posts" =>
        /\ requests # <<>> => requests[1] = None
        /\ \A k \in 2..Len(requests) :
              /\ IdsOn(served[k - 1]) # {}
              /\ Min(IdsOn(served[k - 1])) > 1
              /\ requests[k] = Some(Min(IdsOn(served[k - 1])))

\* C6: for every pages argument and a non-empty slug, fetch_posts issues at
\* least 1 and at most min(max(pages, 1), 20) page requests and has ended
\* once that many were issued.
C6_PageBudget ==
    (op = "fetch_posts" /\ slug # <<>>) =>
        /\ Len(requests) <= Min2(Max2(pagesArg, 1), 20)
        /\ pc \in {"done", "failed"} => Len(requests) >= 1
        /\ Len(requests) = Min2(Max2(pagesArg, 1), 20) => pc \in {"done", "failed"}

\* a call with pages = 21 that returned after exactly 20 requests
C6_Witness ==
    /\ op = "fetch_posts"
    /\ pagesArg = MAX_PAGES + 1
    /\ Len(requests) = 20
    /\ pc = "done"

\* C7: when no page request fails, fetch_posts fails with NoPostsExtracted
\* exactly when the fetched pages held no post; a page without posts ends the
\* pagination, and after an earlier non-empty page the posts are returned.
C7_NoPostsIffEmpty ==
    (op = "fetch_posts" /\ requests # <<>> /\ AllPages) =>
        /\ pc \in {"done", "failed"} =>
              /\ (pc = "failed") = (TotalLinked = 0)
              /\ pc = "failed" => error = Some(Error("NoPostsExtracted", 0))
              /\ pc = "done" => (error = None /\ Len(result[1]) = TotalLinked)
        /\ \A k \in 1..Len(served) :
              LinkedOn(served[k]) = {} => (k = Len(served) /\ pc \in {"done", "failed"})

\* a page without posts served after a page with posts, budget not used up:
\* the call returned the earlier posts
C7_Witness ==
    /\ Returned
    /\ Len(served) = 2
    /\ pages = 3
    /\ LinkedOn(served[2]) = {}
    /\ served[2].messages # <<>>
    /\ Len(result[1]) = 2

\* C8: a message without date anchor, or whose anchor has no href, is not
\* emitted; every message with a permalink on the same page is; the omission
\* raises no error.
C8_SkipUnlinked ==
    (op = "fetch_posts" /\ AllPages) =>
        /\ Len(all_posts) = TotalLinked
        /\ \A h \in Hrefs :
              Cardinality({i \in 1..Len(all_posts) : all_posts[i].post_link = h})
                = ServedWithLink(h)
        /\ TotalLinked > 0 => pc # "failed"

\* a returned page holding a message without anchor next to a message with
\* a permalink: one post comes back
C8_Witness ==
    /\ Returned
    /\ Len(served) = 1
    /\ Len(served[1].messages) = 2
    /\ served[1].messages[2].anchor = "none"
    /\ LinkedOn(served[1]) = {1}
    /\ Len(result[1]) = 1

\* the served feed lists every message once: ids differ within a page and
\* every page lies strictly below the page before it
StrictlyDecreasingFeed ==
    /\ \A k \in 1..Len(served) : \A i, j \in 1..Len(served[k].messages) :
          i # j => served[k].messages[i].post_val # served[k].messages[j].post_val
    /\ \A k, l \in 1..Len(served) :
          k < l => \A i \in 1..Len(served[k].messages), j \in 1..Len(served[l].messages) :
                      served[k].messages[i].post_val > served[l].messages[j].post_val

\* C9: for a feed with strictly decreasing ids across its pages, the result
\* holds every extracted post exactly once and no two records share a
\* post_link.
C9_MergedOnce ==
    (Returned /\ StrictlyDecreasingFeed) =>
        /\ Len(result[1]) = FeedUsed(served)
        /\ \A k \in 1..Len(served) : \A i \in 1..Len(served[k].messages) :
              Cardinality({x \in 1..Len(result[1]) :
                              result[1][x].post_link = served[k].messages[i].href}) = 1
        /\ \A x, y \in 1..Len(result[1]) :
              x # y => result[1][x].post_link # result[1][y].post_link

\* a three-page feed, one post per page, ids 3, 2, 1
C9_Witness ==
    /\ Returned
    /\ StrictlyDecreasingFeed
    /\ Len(served) = 3
    /\ \A k \in 1..3 : Len(served[k].messages) = 1

\* the documented direct-post-link forms: what precedes "slug/id"
DirectForms ==
    {HttpsHost, HttpHost, HttpsHost \o <<"s", "/">>, HttpHost \o <<"s", "/">>,
     BareHost, <<"@">>}

\* the forms in which the slug directly follows the host
HostForms == {HttpsHost, HttpHost, BareHost}

SlashesIn(body) == {i \in 1..Len(body) : body[i] = "/"}

\* the free part reads slug/id: one separator, a non-empty slug before it and
\* a non-empty run of ASCII digits after it
IsSlugAndId(body) ==
    /\ Cardinality(SlashesIn(body)) = 1
    /\ Min(SlashesIn(body)) > 1
    /\ Min(SlashesIn(body)) < Len(body)
    /\ \A i \in (Min(SlashesIn(body)) + 1)..Len(body) : body[i] \in Digits

SlugIn(body) == SubSeq(body, 1, Min(SlashesIn(body)) - 1)

IdDigitsIn(body) == SubSeq(body, Min(SlashesIn(body)) + 1, Len(body))

\* the number a digit string denotes, read from the left
RECURSIVE DecimalValue(_, _)
DecimalValue(digits, acc) ==
    IF digits = <<>> THEN acc
    ELSE DecimalValue(Tail(digits), 10 * acc + DigitValue(Head(digits)))

Classified == op = "parse_post_link" /\ pc = "done"

\* an input in one of the direct forms: a slug (a bare identifier, so without
\* "@" and here without "/") and a positive id
DirectLinkInput ==
    /\ Classified
    /\ url_shape.prefix \in DirectForms
    /\ IsSlugAndId(url_shape.body)
    /\ \A i \in 1..Len(SlugIn(url_shape.body)) : SlugIn(url_shape.body)[i] # "@"
    /\ DecimalValue(IdDigitsIn(url_shape.body), 0) > 0

ExpectedLink ==
    Some(<<SlugIn(url_shape.body), DecimalValue(IdDigitsIn(url_shape.body), 0)>>)

\* C10 as claimed: for every slug without "/" and every positive id in
\* decimal digits, each direct form, with or without surrounding whitespace,
\* is classified as (slug, id).
C10_EverySlug == DirectLinkInput => link_result = ExpectedLink

\* C10 as it holds: the same, except for the slug "s" (in either case) in
\* the forms where the slug directly follows the host, which reads as the
\* feed-view segment.
C10_DirectLinks ==
    (/\ DirectLinkInput
     /\ ~(url_shape.prefix \in HostForms /\ SlugIn(url_shape.body) \in {<<"s">>, <<"S">>}))
        => link_result = ExpectedLink

\* "  t.me/a/01\n": whitespace around, no scheme, a leading zero
C10_Witness ==
    /\ Classified
    /\ url_shape.prefix = BareHost
    /\ url_shape.lead # <<>>
    /\ url_shape.body = <<"a", "/", "0", "1">>
    /\ link_result = Some(<<(<<"a">>), 1>>)

----------------------------------------------------------------------------
(* The post-link classifier on inputs that are no direct links *)

\* an input written from a recognised prefix and a free part over IdChars:
\* the free part holds no host, so what is left after the prefix and mention
\* stripping of 4.2 is the free part without its leading "@"s
IdInput ==
    /\ Classified
    /\ url_shape.prefix \in IdPrefixes
    /\ \A i \in 1..Len(url_shape.body) : url_shape.body[i] \in IdChars

StrippedRemainder == lstripSet(url_shape.body, {"@"})

\* the part after the only separator
IdSegmentOf(rem) == SubSeq(rem, Min(SlashesIn(rem)) + 1, Len(rem))

\* the remainder reads [slug, digits]: exactly two non-empty segments, the
\* second made of decimal digits and denoting a positive number
IsSlugAndPositiveId(rem) ==
    /\ Cardinality(SlashesIn(rem)) = 1
    /\ Min(SlashesIn(rem)) > 1
    /\ IdSegmentOf(rem) # <<>>
    /\ \A i \in 1..Len(IdSegmentOf(rem)) :
          IdSegmentOf(rem)[i] \in Digits \cup ForeignDecimals
    /\ DecimalValue(IdSegmentOf(rem), 0) > 0

\* C11: every input whose remainder after prefix and mention stripping is not
\* exactly two non-empty segments [slug, digits] with a positive number - one
\* or three and more segments, an empty slug, a non-digit, signed, decimal or
\* zero second segment, empty or whitespace-only input - is classified as
\* not a direct link.
C11_NotDirect ==
    (IdInput /\ ~IsSlugAndPositiveId(StrippedRemainder)) => link_result = None

\* "  @a/00\n": whitespace around, a mention, an id of zero
C11_Witness ==
    /\ Classified
    /\ url_shape.lead # <<>>
    /\ url_shape.body = <<"a", "/", "0", "0">>
    /\ url_shape.prefix = <<"@">>
    /\ link_result = None

\* C12 as claimed: an input whose id segment holds a character outside 0-9
\* is classified as not a direct link.
C12_AsciiDigitsOnly ==
    (/\ IdInput
     /\ Cardinality(SlashesIn(StrippedRemainder)) = 1
     /\ \E i \in 1..Len(IdSegmentOf(StrippedRemainder)) :
           IdSegmentOf(StrippedRemainder)[i] \notin Digits)
        => link_result = None

----------------------------------------------------------------------------
(* The channel normaliser *)

Normalized == op = "_normalize_channel" /\ pc \in {"done", "again"}

\* C13 as claimed: _normalize_channel applied to its own result gives that
\* result again, for every input.
C13_Idempotent ==
    (op = "_normalize_channel" /\ pc = "again") => slug_again = slug

\* a channel name: non-empty, without separator, mention sign or whitespace
IsChannelName(c) ==
    /\ c # <<>>
    /\ \A i \in 1..Len(c) : c[i] \notin {"/", "@"} \cup Whitespace

\* what precedes the name in the documented reference forms https://t.me/c,
\* https://t.me/s/c, http://t.me/c, t.me/c, @c and c
ChannelForms ==
    {HttpsHost, HttpsHost \o <<"s", "/">>, HttpHost, BareHost, <<"@">>, <<>>}

\* the input is written, without surrounding whitespace, as a bare name
\* followed by an id (c/123)
IsNameAndId ==
    /\ url_shape.prefix = <<>>
    /\ IsSlugAndId(url_shape.body)
    /\ IsChannelName(SlugIn(url_shape.body))

\* the channel name the input refers to
ReferredName == IF IsNameAndId THEN SlugIn(url_shape.body) ELSE url_shape.body

\* the input is one of the documented reference forms of a channel name
IsReference ==
    /\ Normalized
    /\ url_shape.lead = <<>>
    /\ url_shape.trail = <<>>
    /\ \/ url_shape.prefix \in ChannelForms /\ IsChannelName(url_shape.body)
       \/ IsNameAndId

\* C14 as claimed: every documented reference form of a channel name c is
\* normalised to exactly c.
C14_DocumentedForms == IsReference => slug = ReferredName

----------------------------------------------------------------------------
(* The content chunker *)

SplitOnceDone == op = "split_text_once" /\ pc = "done"

SplitAllDone == op = "split_text" /\ pc = "done"

\* positions of the characters of s that are no whitespace
InkIn(s) == {i \in 1..Len(s) : s[i] \notin Whitespace}

\* s without its leading whitespace, without its trailing whitespace, and
\* without both
LTrimmed(s) == IF InkIn(s) = {} THEN <<>> ELSE SubSeq(s, Min(InkIn(s)), Len(s))

RTrimmed(s) == IF InkIn(s) = {} THEN <<>> ELSE SubSeq(s, 1, Max(InkIn(s)))

Trimmed(s) == LTrimmed(RTrimmed(s))

\* C15: for every text and every maximum length n >= 1, every segment of
\* split_text(text, n) and the head of split_text_once(text, n) is at most n
\* characters long.
C15_SegmentsFit ==
    max_length >= 1 =>
        /\ op = "split_text" => \A i \in 1..Len(split_parts) : Len(split_parts[i]) <= max_length
        /\ SplitOnceDone => Len(head) <= max_length

\* "a aab" split at 2 gives "a", "aa", "b": a split at a space, then a hard
\* cut that leaves a segment of full length
C15_Witness ==
    /\ SplitAllDone
    /\ max_length = 2
    /\ text = <<"a", " ", "a", "a", "b">>
    /\ split_parts = <<(<<"a">>), (<<"a", "a">>), (<<"b">>)>>

\* the segments joined with single spaces
RECURSIVE JoinWithSpaces(_)
JoinWithSpaces(segs) ==
    IF segs = <<>> THEN <<>>
    ELSE IF Len(segs) = 1 THEN segs[1]
    ELSE segs[1] \o <<" ">> \o JoinWithSpaces(Tail(segs))

\* a text up to whitespace normalisation: its runs of whitespace replaced by
\* one space and its surrounding whitespace removed
RECURSIVE WhitespaceNormalized(_)
WhitespaceNormalized(s) ==
    IF InkIn(s) = {} THEN <<>>
    ELSE LET t == LTrimmed(s)
             gaps == {i \in 1..Len(t) : t[i] \in Whitespace}
             word == IF gaps = {} THEN t ELSE SubSeq(t, 1, Min(gaps) - 1)
             rest == WhitespaceNormalized(Drop(t, Len(word)))
         IN  IF rest = <<>> THEN word ELSE word \o <<" ">> \o rest

\* the split_text call returned and its segments, joined, read as the text
RoundTrip ==
    WhitespaceNormalized(JoinWithSpaces(split_parts)) = WhitespaceNormalized(text)

\* C16 as claimed: for every text and n (n >= 1) the segments of
\* split_text(text, n), joined with single spaces, reproduce the text up to
\* whitespace normalisation, hard cuts included.
C16_RoundTripAlways == (SplitAllDone /\ max_length >= 1) => RoundTrip

\* the longest run of characters of s that are no newline, space or tab
LongestRun(s) ==
    LET runs == {<<i, j>> \in (1..Len(s)) \X (1..Len(s)) :
                    i <= j /\ \A k \in i..j : s[k] \notin SplitChars}
    IN  IF runs = {} THEN 0 ELSE Max({r[2] - r[1] + 1 : r \in runs})

\* C16 as it holds: the round trip, for every text none of whose runs of
\* characters other than newline, space and tab is longer than n.
C16_RoundTripOfWords ==
    (SplitAllDone /\ LongestRun(text) <= max_length) => RoundTrip

\* " ab\n a" split at 2: two segments, the newline and the space between
\* them gone
C16_Witness ==
    /\ SplitAllDone
    /\ max_length = 2
    /\ text = <<"a", "b", "\n", " ", "a">>
    /\ split_parts = <<(<<"a", "b">>), (<<"a">>)>>

\* C17 as claimed: for every text with len(text) <= n, split_text_once
\* returns the text itself and an empty tail.
C17_ShortTextItself ==
    (SplitOnceDone /\ Len(text) <= max_length) => (head = text /\ remainder = <<>>)

\* C17 as it holds: for every text whose trimmed form is at most n
\* characters long, split_text_once returns the trimmed text and an empty tail.
C17_ShortTextTrimmed ==
    (SplitOnceDone /\ Len(Trimmed(text)) <= max_length)
        => (head = Trimmed(text) /\ remainder = <<>>)

\* " ab" with n = 3: the text fits and the head is its trimmed form
C17_Witness ==
    /\ SplitOnceDone
    /\ max_length = 3
    /\ text = <<" ", "a", "b">>
    /\ head = <<"a", "b">>
    /\ remainder = <<>>

\* the 0-based positions > 0 of a newline, space or tab among the first n + 1
\* characters of t
BoundariesIn(t, n) == {k \in 1..n : k + 1 <= Len(t) /\ t[k + 1] \in SplitChars}

\* where 4.7 cuts the trimmed text t: at the last boundary, else at n
CutOf(t, n) == IF BoundariesIn(t, n) # {} THEN Max(BoundariesIn(t, n)) ELSE n

\* C18: when the trimmed text is longer than n, split_text_once cuts at the
\* last newline, space or tab among the first n + 1 characters if there is
\* one at a position > 0, else at exactly n characters; the head ends before
\* the cut without trailing whitespace, the tail starts at the cut without
\* leading whitespace; and a word is split only when the first n + 1
\* characters hold no newline, space or tab.
C18_SplitAtLastWhitespace ==
    (SplitOnceDone /\ Len(Trimmed(text)) > max_length) =>
        LET t == Trimmed(text)
            cut == CutOf(t, max_length)
        IN  /\ head = RTrimmed(SubSeq(t, 1, cut))
            /\ remainder = LTrimmed(SubSeq(t, cut + 1, Len(t)))
            /\ (head \o remainder = t /\ head # <<>> /\ remainder # <<>>)
                  => BoundariesIn(t, max_length) = {}

\* "a b a" with n = 3: two spaces in the window, the cut is at the last
C18_Witness ==
    /\ SplitOnceDone
    /\ max_length = 3
    /\ text = <<"a", " ", "b", " ", "a">>
    /\ head = <<"a", " ", "b">>
    /\ remainder = <<"a">>

\* the characters of s that are no whitespace, in order
InkOf(s) == SelectSeq(s, LAMBDA c : c \notin Whitespace)

\* the segments one after the other
RECURSIVE Concat(_)
Concat(segs) == IF segs = <<>> THEN <<>> ELSE segs[1] \o Concat(Tail(segs))

\* the segments produced so far are non-empty and trimmed, and with what
\* remains to be split they carry the text's non-whitespace characters in order
SegmentsCarryText ==
    (op = "split_text" /\ max_length >= 1) =>
        /\ \A i \in 1..Len(split_parts) :
              split_parts[i] # <<>> /\ Trimmed(split_parts[i]) = split_parts[i]
        /\ pc = "splitting" => InkOf(Concat(split_parts) \o remainder) = InkOf(text)
        /\ pc = "done" => InkOf(Concat(split_parts)) = InkOf(text)
        /\ pc = "done" => (split_parts = <<>> <=> InkIn(text) = {})

\* an iteration of the loop of split_text leaves a strictly shorter remainder,
\* and leaves the loop when nothing remains: the loop runs at most
\* len(text) times
LoopShrinks ==
    (op = "split_text" /\ pc = "splitting" /\ max_length >= 1) =>
        /\ Len(remainder') < Len(remainder)
        /\ remainder' = <<>> => pc' = "done"

\* C29: for every text and every n >= 1, split_text terminates, every
\* produced segment is non-empty with no leading or trailing whitespace, the
\* non-whitespace characters of the segments taken in order are those of the
\* text, and the result is empty exactly when the text is empty or
\* whitespace-only.
C29_SplitTextTotal ==
    /\ []SegmentsCarryText
    /\ [][LoopShrinks]_vars

\* "aa b" split at 1: a hard cut, then a cut at the space, three segments
C29_Witness ==
    /\ SplitAllDone
    /\ max_length = 1
    /\ text = <<"a", "a", " ", "b">>
    /\ split_parts = <<(<<"a">>), (<<"a">>), (<<"b">>)>>

----------------------------------------------------------------------------
(* Media classification *)

MediaDetected == op = "_detect_media_type" /\ pc = "done"

\* the kind 4.4 gives a message: the first of poll, voice, document, video
\* it holds, else gallery for more than one photo container, else photo for
\* a photo container (a .tgme_widget_message_photo_wrap or a
\* .tgme_widget_message_photo element), else text
KindOf(m) ==
    IF m.poll THEN "poll"
    ELSE IF m.voice THEN "voice"
    ELSE IF m.document THEN "document"
    ELSE IF m.video THEN "video"
    ELSE IF m.photo_wraps > 1 THEN "gallery"
    ELSE IF m.photo_wraps = 1 \/ m.photo THEN "photo"
    ELSE "text"

CountOf(m) ==
    IF KindOf(m) = "gallery" THEN m.photo_wraps
    ELSE IF KindOf(m) = "text" THEN 0
    ELSE 1

\* C20 as claimed: the kind follows the precedence poll, voice, document,
\* video, gallery, photo, text; media_count is the number of photo containers
\* for a gallery, 1 for a single-media kind and 0 for text; has_media is true
\* exactly when the kind is not text.
C20_MediaPrecedence ==
    MediaDetected =>
        /\ media_type[1].type = KindOf(message_node)
        /\ media_type[1].media_count = CountOf(message_node)
        /\ has_media <=> media_type[1].type # "text"

----------------------------------------------------------------------------
(* Counter parsing *)

CounterParsed == op = "_parse_counter" /\ pc = "done"

\* the token without its whitespace
Squeezed(t) == SelectSeq(t, LAMBDA c : c \notin Whitespace)

\* the multiplier's number of decimal places: 3 for K, 6 for M, in either case
PlacesOf(t) ==
    IF t # <<>> /\ Last(t) \in {"K", "k"} THEN 3
    ELSE IF t # <<>> /\ Last(t) \in {"M", "m"} THEN 6
    ELSE 0

\* the token without its suffix letter
NumberOf(t) == IF t # <<>> /\ Last(t) \in {"K", "k", "M", "m"} THEN Front(t) ELSE t

SeparatorsIn(n) == {i \in 1..Len(n) : n[i] \in {".", ","}}

\* the token follows the suffix grammar: digits, optionally one "." or ","
\* with digits on both sides, optionally K or M
FollowsGrammar(t) ==
    LET n == NumberOf(t)
    IN  /\ n # <<>>
        /\ \A i \in 1..Len(n) : n[i] \in Digits \cup {".", ","}
        /\ Cardinality(SeparatorsIn(n)) <= 1
        /\ \A i \in SeparatorsIn(n) : 1 < i /\ i < Len(n)

\* the scaled value of a token of the grammar, in decimal digits: the
\* decimal point moved right by the multiplier's places, the rest cut off
ScaledNumeral(t) ==
    LET n == NumberOf(t)
        whole == IF SeparatorsIn(n) = {} THEN n ELSE SubSeq(n, 1, Min(SeparatorsIn(n)) - 1)
        frac == IF SeparatorsIn(n) = {} THEN <<>> ELSE Drop(n, Min(SeparatorsIn(n)))
        moved == SubSeq(frac \o [i \in 1..6 |-> "0"], 1, PlacesOf(t))
    IN  Numeral(lstripSet(whole \o moved, {"0"}))

\* the integer formed by the digits of a token, 0 if it has none
DigitsNumeral(t) == Numeral(lstripSet(SelectSeq(t, LAMBDA c : c \in Digits), {"0"}))

\* C19 as claimed: a token of the suffix grammar gives its scaled integer
\* value; a token that does not begin with a number gives the integer
\* formed by its digits, 0 if it has none; every token gives a numeral
\* without sign and none raises.
C19_SuffixGrammar ==
    CounterParsed =>
        /\ counter # None
        /\ \A i \in 1..Len(counter[1]) : counter[1][i] \in Digits
        /\ FollowsGrammar(Squeezed(raw)) => counter[1] = ScaledNumeral(Squeezed(raw))
        /\ (Squeezed(raw) = <<>> \/ Head(Squeezed(raw)) \notin Digits)
              => counter[1] = DigitsNumeral(raw)

----------------------------------------------------------------------------
(* Startup: the polling attempts of main *)

MainExited == op = "main" /\ pc = "exited"

----------------------------------------------------------------------------
(* The media URL search *)

UrlsExtracted == op = "_extract_photo_url" /\ pc = "done"

\* the positions of the elements of message m that satisfy Test, in order
Where(m, Test(_)) == SelectSeq([j \in 1..Len(m) |-> j], LAMBDA j : Test(m[j]))

\* the known media containers of a kind of media, and the tags whose src is
\* an embedded source of that kind
ContainersOf(kind) ==
    IF kind = "photo"
    THEN {"tgme_widget_message_photo_wrap", "tgme_widget_message_photo",
          "tgme_widget_message_video_thumb", "tgme_widget_message_video_player"}
    ELSE {"tgme_widget_message_video", "tgme_widget_message_video_player",
          "tgme_widget_message_video_wrap"}

EmbeddedTagsOf(kind) == IF kind = "photo" THEN {"img"} ELSE {"video", "source"}

IsAvatar(el) == "tgme_widget_message_user_photo" \in el.classes

\* a URL with a leading "//" made absolute
Absolute(u) ==
    IF Len(u) >= 2 /\ SubSeq(u, 1, 2) = <<"/", "/">>
    THEN <<"h", "t", "t", "p", "s", ":">> \o u ELSE u

\* the three layers in the documented order: the first known container with
\* a URL in its inline style, else the first embedded src, else the first
\* data-src anywhere; the avatar is never a candidate
LayeredUrl(kind, m) ==
    LET backgrounds ==
            Where(m, LAMBDA el : /\ el.classes \cap ContainersOf(kind) # {}
                                 /\ ~IsAvatar(el)
                                 /\ el.style # None
                                 /\ el.style[1].url # None)
        embedded ==
            Where(m, LAMBDA el : /\ el.name \in EmbeddedTagsOf(kind)
                                 /\ el.name = "source" =>
                                       (el.parent # 0 /\ m[el.parent].name = "video")
                                 /\ ~IsAvatar(el)
                                 /\ el.src # None)
        lazy == Where(m, LAMBDA el : ~IsAvatar(el) /\ el.data_src # None)
    IN  IF backgrounds # <<>> THEN Some(Absolute(m[backgrounds[1]].style[1].url[1]))
        ELSE IF embedded # <<>> THEN Some(Absolute(m[embedded[1]].src[1]))
        ELSE IF lazy # <<>> THEN Some(Absolute(m[lazy[1]].data_src[1]))
        ELSE None

\* C24: the photo and video URL extractors return the URL found by the first
\* layer that yields one, in the documented order - known media containers'
\* inline background-image URL, then embedded img/video/source src, then any
\* data-src attribute anywhere in the message - never the channel-avatar-class
\* image, with a leading "//" rewritten to "https://", and None when no layer
\* matches.
C24_LayeredSearch ==
    UrlsExtracted =>
        /\ photo_url = LayeredUrl("photo", message_tree)
        /\ video_url = LayeredUrl("video", message_tree)

----------------------------------------------------------------------------
(* Delivery of a rewritten post *)

Sending == op = "send_rewritten_post"

SendReturned == Sending /\ pc = "returned"

IsMedia(msg) == msg.method \in {"answer_video", "answer_photo"}

\* the positions in the history of the media messages
MediaSends == {i \in 1..Len(sent) : IsMedia(sent[i])}

\* the texts of the messages i..j of the history, as one text
TextOfSends(i, j) == Concat([k \in 1..(j - i + 1) |-> sent[i + k - 1].text])

\* C22: in send_rewritten_post, for every rewritten text and every delivery
\* path, each caption attached to a photo or video is at most
\* MAX_CAPTION_LENGTH long and each plain text message at most
\* MAX_MESSAGE_LENGTH; and when a media send succeeds, the caption followed by
\* the extra chunks covers the whole rewritten text.
C22_ChunksFitAndCover ==
    Sending =>
        /\ \A i \in 1..Len(sent) :
              Len(sent[i].text) <= (IF IsMedia(sent[i]) THEN caption_limit ELSE message_limit)
        /\ \A i \in MediaSends :
              /\ sent[i].text = Trimmed(sent[i].text)
              /\ InkOf(sent[i].text \o Concat(extra_text_chunks)) = InkOf(rewritten)
        /\ (SendReturned /\ tried # <<>> /\ Last(tried) \notin failed \cup {"text"}) =>
              /\ MediaSends # {}
              /\ InkOf(TextOfSends(Max(MediaSends), Len(sent))) = InkOf(rewritten)

\* "aaa" with both limits 2 and a photo URL: the photo goes out with the
\* caption "aa", the extra chunk "a" after it
C22_Witness ==
    /\ SendReturned
    /\ rewritten = <<"a", "a", "a">>
    /\ caption_limit = 2
    /\ message_limit = 2
    /\ sent = <<[method |-> "answer_photo", media |-> "upload", text |-> <<"a", "a">>],
                [method |-> "answer", media |-> "none", text |-> <<"a">>]>>

\* C25: in one call of send_rewritten_post, whichever sends or downloads fail
\* and at whatever point, at most one media message is sent and no part of
\* the rewritten text is sent more than once.
C25_SentOnce ==
    Sending =>
        /\ Cardinality(MediaSends) <= 1
        /\ Len(InkOf(TextOfSends(1, Len(sent)))) <= Len(InkOf(rewritten))

\* the place of a delivery alternative in the fixed order
RankOf(a) ==
    CASE a = "video_file_id" -> 1
      [] a = "video_url" -> 2
      [] a = "photo_file_id" -> 3
      [] a = "photo_url" -> 4
      [] a = "text" -> 5

\* alternative a was not there to try, or its attempt was given up: its
\* download was no use, or a step of its try block raised
UnavailableOrFailed(a) == post[a] = None \/ a \in failed

\* C26: send_rewritten_post attempts delivery in the fixed order video by
\* file id, video by URL download, photo by file id, photo by URL download,
\* text only; an alternative is attempted only when every earlier one was
\* unavailable or failed; and when every media attempt fails or no media
\* exists, the complete rewritten text is sent as plain chunks.
C26_FixedOrder ==
    Sending =>
        /\ \A i, j \in 1..Len(tried) : i < j => RankOf(tried[i]) < RankOf(tried[j])
        /\ \A i \in 1..Len(tried) : tried[i] # "text" => post[tried[i]] # None
        /\ \A i \in 1..Len(tried) : \A k \in 1..4 :
              RankOf(Alternatives[k]) < RankOf(tried[i]) => UnavailableOrFailed(Alternatives[k])
        /\ (SendReturned /\ \A k \in 1..4 : UnavailableOrFailed(Alternatives[k])) =>
              \E n \in 0..Len(sent) :
                  /\ \A i \in (Len(sent) - n + 1)..Len(sent) : ~IsMedia(sent[i])
                  /\ InkOf(TextOfSends(Len(sent) - n + 1, Len(sent))) = InkOf(rewritten)

\* every media field present, every media attempt given up, "a a" sent as
\* two plain chunks
C26_Witness ==
    /\ SendReturned
    /\ tried = <<"video_file_id", "video_url", "photo_file_id", "photo_url", "text">>
    /\ rewritten = <<"a", " ", "a">>
    /\ message_limit = 1
    /\ sent = <<[method |-> "answer", media |-> "none", text |-> <<"a">>],
                [method |-> "answer", media |-> "none", text |-> <<"a">>]>>

----------------------------------------------------------------------------
(* The conversation of a chat *)

\* a message has been dispatched
Dispatched == op = "dispatch" /\ turns > 0

\* the batch of posts stored for the chat ([] when none is stored)
StoredPosts == IF fsm_data.posts = None THEN <<>> ELSE fsm_data.posts[1]

\* the message is a post forwarded from a channel with enough text or caption
ForwardedLong(u) == u.forward_from_chat /\ Len(TextOrCaption(u)) >= MinForwardedLength

\* C23: a post forwarded from a channel with at least 10 characters of text
\* or caption is taken by the forwarded-post handler and passed on for
\* rewriting as it is (unless the status message cannot be sent), in every
\* conversation state of the chat, waiting_for_selection included.
C23_ForwardedRewritten ==
    Dispatched /\ ForwardedLong(update) =>
        /\ handler = <<"handle_forwarded_post">>
        /\ reply # "none" => rewrote = Some(ForwardedPost(TextOrCaption(update)))

\* the number the chat sent to the selection handler
Chosen == intOf(strip(update.text[1]))

\* the selection handler has taken a post number
NumberTaken ==
    /\ Dispatched
    /\ handler = <<"handle_post_selection">>
    /\ update.text # None
    /\ isdigit(strip(update.text[1]))

\* the summary on screen is that of the stored batch: the last scan succeeded
SummaryCurrent ==
    /\ summary # None
    /\ StoredPosts # <<>>
    /\ summary = format_summary(StoredPosts)

\* C27: after a successful channel scan the selection handler accepts
\* exactly the numbers 1..N announced in the summary, and number k selects
\* the post shown as post #k, also for a batch larger than
\* MAX_POSTS_IN_SUMMARY.
C27_AcceptsAnnounced ==
    NumberTaken /\ SummaryCurrent =>
        /\ reply \notin {"invalid_number", "empty_list", "raised"}
               <=> (1 <= Chosen /\ Chosen <= summary[1].announced)
        /\ rewrote # None =>
               /\ Chosen <= Len(summary[1].shown)
               /\ rewrote[1] = summary[1].shown[Chosen]

\* the handler run that just ended was a scan whose fetch failed
ScanFailed ==
    /\ Dispatched
    /\ handler # <<>>
    /\ Last(handler) = "handle_channel_scan"
    /\ reply = "fetch_error"

WaitingHasBatch == fsm_state = "waiting_for_selection" => StoredPosts # <<>>

\* C28: whatever messages a chat has sent, whenever its state is
\* waiting_for_selection the stored batch of posts is non-empty; and a scan
\* that fails leaves the stored batch and the state as they were.
C28_BatchWhileWaiting ==
    /\ []WaitingHasBatch
    /\ [][ScanFailed' => UNCHANGED <<fsm_state, fsm_data>>]_vars

\* a scan failed in a chat that had a batch from an earlier scan and a prompt
C28_Witness ==
    /\ ScanFailed
    /\ fsm_state = "waiting_for_selection"
    /\ Len(StoredPosts) = 2
    /\ fsm_data.rewrite_prompt # None

----------------------------------------------------------------------------
(* The event loop during a fetch *)

\* the loop can take up the task t that is ready
CanRun(t) == ENABLED (StartHandler(t) \/ (t = "health" /\ ServeHealth))

\* C21: a scrape or single-post fetch started by a handler is dispatched off
\* the event loop: while it waits for the network, the loop can run the
\* other handlers that are ready (another chat's update, the health
\* endpoint).
C21_LoopFreeDuringFetch ==
    \A t \in Tasks, o \in Tasks :
        task_pc[t] = "fetching" /\ task_pc[o] = "ready" => CanRun(o)

====
